---- MODULE Spec2Model ----
(***************************************************************************)
(* Incremental indexing pipeline of minima: the SQLite state store         *)
(* (src/indexer/storage.py), the indexer that routes files to Qdrant       *)
(* collections (src/indexer/indexer.py) and the tasks that the             *)
(* application starts on the work queue (src/indexer/app.py).              *)
(*                                                                         *)
(* The code slices and splits file paths by character: Chars gives the     *)
(* characters of every string that is handled that way.                    *)
(***************************************************************************)
EXTENDS Integers, Sequences, FiniteSets, TLC

VARIABLES
    docs,             \* rows of table minimadoc, in rowid (insertion) order
    qdrant,           \* Qdrant: existing collection name -> its points, as the number
                      \* of points per metadata.file_path
    document_stores,  \* Indexer.document_stores: cached pool names, in dict order
    call,             \* the last completed handler call, its arguments and results
    sess,             \* SpecSessions: the two sessions inside check_needs_indexing
    tasks,            \* SpecTasks: the asyncio tasks created by app.py
    queue,            \* SpecTasks: the AsyncQueue shared by those tasks
    app,              \* SpecTasks: the lifespan phase of the application
    chain,            \* SpecAgent: the run of OpenAIChain.invoke
    route,            \* SpecPool: the last call of _poolname_from_file_path
    search,           \* SpecSearch: the last similarity search and what it returned
    high,             \* SpecHistory: per path, the largest timestamp stored so far
    disk,             \* the files on disk
    chat,             \* the websocket loop, the answering loop and their two queues
    upload            \* the upload request that is being served

vars == <<docs, qdrant, document_stores, call, sess, tasks, queue, app, chain, route, search, high, disk, chat, upload>>

-----------------------------------------------------------------------------
(* Bounds of the model *)

\* largest modification time (seconds) a FileEvent carries
MaxTime == 2

\* largest number of points stored in Qdrant at one time
MaxPoints == 2

\* largest number of documents one load_and_split returns
MaxDocuments == 1

\* largest number of messages waiting in the work queue
MaxQueue == 2

\* largest number of responses the chat model gives in one run of the agent
MaxTurns == 2

\* largest number of tool calls in one response of the chat model
MaxToolCalls == 2

\* largest number of characters of a path given to the pool routing alone
MaxLen == 6

\* largest number of points of a collection that Qdrant scores for one query
MaxHits == 21

\* largest indexing time (seconds) recorded for a file
MaxDuration == 1

\* largest number of files in one upload request
MaxUpload == 2

\* largest number of texts received on one websocket
MaxReceived == 3

-----------------------------------------------------------------------------
(* Configuration and inputs *)

\* Config.CONTAINER_PATH, the watch root
CONTAINER_PATH == "/w"

\* LocalConfig.LOCAL_FILES_PATH
LOCAL_FILES_PATH == "/l"

\* the file paths of the model
Paths == {"/w/a/x.md", "/w/a/y.md", "/w/r.md"}

\* the paths a message can carry: those, a file no loader is registered for
\* and a file that is uploaded
Files == Paths \cup {"/w/a/x.bin", "/l/a/x.md"}

\* the characters of the strings that the code slices, splits or compares by
\* character
Chars ==
    ("/w" :> <<"/", "w">>) @@
    ("/l" :> <<"/", "l">>) @@
    ("/w/a/x.md" :> <<"/", "w", "/", "a", "/", "x", ".", "m", "d">>) @@
    ("/w/a/y.md" :> <<"/", "w", "/", "a", "/", "y", ".", "m", "d">>) @@
    ("/w/r.md" :> <<"/", "w", "/", "r", ".", "m", "d">>) @@
    ("a" :> <<"a">>) @@
    ("x.md" :> <<"x", ".", "m", "d">>) @@
    ("x.html" :> <<"x", ".", "h", "t", "m", "l">>) @@
    ("/w/a/w.md" :> <<"/", "w", "/", "a", "/", "w", ".", "m", "d">>) @@
    ("/w/a/x.bin" :> <<"/", "w", "/", "a", "/", "x", ".", "b", "i", "n">>) @@
    ("/l/a/x.md" :> <<"/", "l", "/", "a", "/", "x", ".", "m", "d">>) @@
    ("/l/a/x.html" :> <<"/", "l", "/", "a", "/", "x", ".", "h", "t", "m", "l">>) @@
    ("default" :> <<"d", "e", "f", "a", "u", "l", "t">>) @@
    ("/l/x.md" :> <<"/", "l", "/", "x", ".", "m", "d">>) @@
    ("/l/y.md" :> <<"/", "l", "/", "y", ".", "m", "d">>) @@
    ("/l/default_user/x.md" :> <<"/", "l", "/", "d", "e", "f", "a", "u", "l", "t", "_", "u", "s", "e", "r", "/", "x", ".", "m", "d">>) @@
    ("/l/default_user/y.md" :> <<"/", "l", "/", "d", "e", "f", "a", "u", "l", "t", "_", "u", "s", "e", "r", "/", "y", ".", "m", "d">>) @@
    ("default_user" :> <<"d", "e", "f", "a", "u", "l", "t", "_", "u", "s", "e", "r">>) @@
    ("q" :> <<"q">>) @@
    ("\n" :> <<"\n">>) @@
    ("CFC_CLIENT_DISCONNECTED" :>
        <<"C", "F", "C", "_", "C", "L", "I", "E", "N", "T", "_", "D", "I", "S", "C", "O", "N", "N", "E", "C", "T", "E", "D">>) @@
    ("CFC_CHAT_STARTED" :>
        <<"C", "F", "C", "_", "C", "H", "A", "T", "_", "S", "T", "A", "R", "T", "E", "D">>) @@
    ("CFC_CHAT_STOPPED" :>
        <<"C", "F", "C", "_", "C", "H", "A", "T", "_", "S", "T", "O", "P", "P", "E", "D">>) @@
    ("CFC_CHAT_STARTED\n" :>
        <<"C", "F", "C", "_", "C", "H", "A", "T", "_", "S", "T", "A", "R", "T", "E", "D", "\n">>) @@
    ("" :> <<>>)

\* the string made of the characters cs
Str(cs) == CHOOSE s \in DOMAIN Chars : Chars[s] = cs

\* the absent value of a nullable column
None == -1

Times == 1..MaxTime

\* IndexingStatus
new_file == "new_file"
need_reindexing == "need_reindexing"
no_need_reindexing == "no_need_reindexing"

\* FileStatus
FileStatus == {"uploaded", "indexing", "indexed", "failed"}

-----------------------------------------------------------------------------
(* Helpers on sequences *)

Range(s) == {s[i] : i \in 1..Len(s)}

\* index of the first element of s that satisfies Test, 0 when there is none
FirstIndex(s, Test(_)) ==
    IF \E i \in 1..Len(s) : Test(s[i])
    THEN CHOOSE i \in 1..Len(s) : Test(s[i]) /\ \A j \in 1..(i - 1) : ~Test(s[j])
    ELSE 0

\* str.lstrip("/")
RECURSIVE lstrip(_)
lstrip(s) == IF s # <<>> /\ Head(s) = "/" THEN lstrip(Tail(s)) ELSE s

\* str.split("/")[0]: the characters before the first "/"
FirstSegment(s) ==
    LET i == FirstIndex(s, LAMBDA c : c = "/")
    IN  IF i = 0 THEN s ELSE SubSeq(s, 1, i - 1)

-----------------------------------------------------------------------------
(* indexer.py: pool routing *)

\* a watch root: Config.CONTAINER_PATH is None when the variable is unset
Unset == [unset |-> TRUE, chars |-> <<>>]
Root(chars) == [unset |-> FALSE, chars |-> chars]

default == <<"d", "e", "f", "a", "u", "l", "t">>

\* a mutant of poolname_of: the slashes after the watch root are not stripped
poolname_of_noLstrip(fp, container_path) ==
    IF container_path.unset THEN [pn |-> default, raised |-> FALSE]
    ELSE LET clean_pn == SubSeq(fp, Len(container_path.chars) + 1, Len(fp))
             pn == IF "/" \in Range(clean_pn) THEN FirstSegment(clean_pn) ELSE default
         IN  [pn |-> IF pn = <<>> THEN default ELSE pn, raised |-> FALSE]

\* a mutant of poolname_of: the exception of len(None) is not caught
poolname_of_noExcept(fp, container_path) ==
    IF container_path.unset THEN [pn |-> <<>>, raised |-> TRUE]
    ELSE LET clean_pn == lstrip(SubSeq(fp, Len(container_path.chars) + 1, Len(fp)))
             pn == IF "/" \in Range(clean_pn) THEN FirstSegment(clean_pn) ELSE default
         IN  [pn |-> IF pn = <<>> THEN default ELSE pn, raised |-> FALSE]

\* the body of Indexer._poolname_from_file_path on the characters of the path
\* and the watch root: len(None) raises and the except returns 'default'
poolname_of(fp, container_path) ==
    IF container_path.unset THEN [pn |-> default, raised |-> FALSE]
    ELSE LET clean_pn == lstrip(SubSeq(fp, Len(container_path.chars) + 1, Len(fp)))
             pn == IF "/" \in Range(clean_pn) THEN FirstSegment(clean_pn) ELSE default
         IN  [pn |-> IF pn = <<>> THEN default ELSE pn, raised |-> FALSE]

_poolname_from_file_path(file_path) ==
    Str(poolname_of(Chars[file_path], Root(Chars[CONTAINER_PATH])).pn)

\* the pool of every path of the model
PoolOf == [file_path \in Files |-> _poolname_from_file_path(file_path)]

Pools == {PoolOf[p] : p \in Paths}

-----------------------------------------------------------------------------
(* storage.py: the state store *)

\* MinimaDoc(fpath=..., last_updated_seconds=...): the other columns take
\* their defaults
MinimaDoc(fpath, last_updated_seconds) ==
    [fpath |-> fpath,
     last_updated_seconds |-> last_updated_seconds,
     indexing_time_seconds |-> None,
     status |-> "uploaded"]

\* select(MinimaDoc).where(MinimaDoc.fpath == fpath) ... first()
SelectFirst(table, fpath) == FirstIndex(table, LAMBDA doc : doc.fpath = fpath)

\* the paths that have a record
StoredPaths(table) == {table[i].fpath : i \in 1..Len(table)}

\* the stored timestamp of fpath, None when fpath has no record
LastStored(table, fpath) ==
    IF SelectFirst(table, fpath) = 0 THEN None
    ELSE table[SelectFirst(table, fpath)].last_updated_seconds

\* a mutant of TimestampChanged: every other timestamp counts as changed
TimestampChanged_differs(stored, incoming) == stored # incoming

\* a mutant of TimestampChanged: an unchanged timestamp counts as changed
TimestampChanged_orEqual(stored, incoming) == stored <= incoming

\* the comparison of check_needs_indexing
TimestampChanged(stored, incoming) == stored < incoming

\* a mutant of check_needs_indexing: the update of the timestamp is not
\* committed
check_needs_indexing_noCommit(table, fpath, last_updated_seconds, fault) ==
    LET i == SelectFirst(table, fpath)
    IN  IF fault THEN [docs |-> table, status |-> no_need_reindexing]
        ELSE IF i # 0
        THEN IF TimestampChanged(table[i].last_updated_seconds, last_updated_seconds)
             THEN [docs |-> table, status |-> need_reindexing]
             ELSE [docs |-> table, status |-> no_need_reindexing]
        ELSE [docs |-> Append(table, MinimaDoc(fpath, last_updated_seconds)),
              status |-> new_file]

\* a mutant of check_needs_indexing: the except branch returns the status the
\* timestamps call for
check_needs_indexing_failOpen(table, fpath, last_updated_seconds, fault) ==
    LET i == SelectFirst(table, fpath)
    IN  IF i # 0
        THEN IF TimestampChanged(table[i].last_updated_seconds, last_updated_seconds)
             THEN [docs |-> IF fault THEN table
                            ELSE [table EXCEPT ![i].last_updated_seconds = last_updated_seconds],
                   status |-> need_reindexing]
             ELSE [docs |-> table, status |-> no_need_reindexing]
        ELSE [docs |-> IF fault THEN table
                       ELSE Append(table, MinimaDoc(fpath, last_updated_seconds)),
              status |-> new_file]

\* MinimaStore.check_needs_indexing. fault: the session raises (on the read,
\* the insert or the update); nothing is committed and the except branch
\* returns no_need_reindexing.
check_needs_indexing(table, fpath, last_updated_seconds, fault) ==
    LET i == SelectFirst(table, fpath)
    IN  IF fault THEN [docs |-> table, status |-> no_need_reindexing]
        ELSE IF i # 0
        THEN IF TimestampChanged(table[i].last_updated_seconds, last_updated_seconds)
             THEN [docs |-> [table EXCEPT ![i].last_updated_seconds = last_updated_seconds],
                   status |-> need_reindexing]
             ELSE [docs |-> table, status |-> no_need_reindexing]
        ELSE [docs |-> Append(table, MinimaDoc(fpath, last_updated_seconds)),
              status |-> new_file]

\* MinimaStore.delete_m_doc: results.one() raises when no row matches
delete_m_doc(table, fpath) ==
    IF SelectFirst(table, fpath) = 0
    THEN [docs |-> table, raised |-> TRUE]
    ELSE [docs |-> SelectSeq(table, LAMBDA doc : doc.fpath # fpath), raised |-> FALSE]

RECURSIVE delete_all(_, _, _)
delete_all(table, removed_files, k) ==
    IF k > Len(removed_files) THEN [docs |-> table, raised |-> FALSE]
    ELSE LET d == delete_m_doc(table, removed_files[k])
         IN  IF d.raised THEN d ELSE delete_all(d.docs, removed_files, k + 1)

\* a mutant of find_removed_files: the test on existing_file_paths is inverted
find_removed_files_inverted(table, existing_file_paths) ==
    LET stored == [i \in 1..Len(table) |-> table[i].fpath]
        removed_files == SelectSeq(stored, LAMBDA fpath : fpath \in existing_file_paths)
        d == delete_all(table, removed_files, 1)
    IN  [docs |-> d.docs, removed_files |-> removed_files, raised |-> d.raised]

\* MinimaStore.find_removed_files
find_removed_files(table, existing_file_paths) ==
    LET stored == [i \in 1..Len(table) |-> table[i].fpath]
        removed_files == SelectSeq(stored, LAMBDA fpath : fpath \notin existing_file_paths)
        d == delete_all(table, removed_files, 1)
    IN  [docs |-> d.docs, removed_files |-> removed_files, raised |-> d.raised]

-----------------------------------------------------------------------------
(* indexer.py: collections, loaders and points *)

\* keys of Config.EXTENSIONS_TO_LOADERS
EXTENSIONS_TO_LOADERS ==
    { <<".", "p", "d", "f">>, <<".", "p", "p", "t", "x">>, <<".", "p", "p", "t">>,
      <<".", "x", "l", "s">>, <<".", "x", "l", "s", "x">>, <<".", "d", "o", "c", "x">>,
      <<".", "d", "o", "c">>, <<".", "t", "x", "t">>, <<".", "h", "t", "m", "l">>,
      <<".", "h", "t", "m">>, <<".", "m", "d">>, <<".", "c", "s", "v">> }

\* index of the last element of s equal to c, 0 when there is none
LastIndexOf(s, c) ==
    IF c \in Range(s) THEN CHOOSE i \in 1..Len(s) : s[i] = c /\ \A j \in (i + 1)..Len(s) : s[j] # c
    ELSE 0

\* str.lower() on the characters of the model's paths
lower(s) == [i \in 1..Len(s) |-> IF s[i] = "M" THEN "m" ELSE IF s[i] = "D" THEN "d" ELSE s[i]]

\* Path(file_path).suffix: the part of the last path component from its last
\* dot, empty when the component has no dot, starts or ends with its only dot
suffix(file_path) ==
    LET fp == Chars[file_path]
        name == SubSeq(fp, LastIndexOf(fp, "/") + 1, Len(fp))
        i == LastIndexOf(name, ".")
    IN  IF i > 1 /\ i < Len(name) THEN SubSeq(name, i, Len(name)) ELSE <<>>

\* a mutant of _create_loader: a file without a registered loader gets a loader
_create_loader_any(file_path) == TRUE

\* Indexer._create_loader: TRUE when a loader is made, FALSE when it raises
\* ValueError("Unsupported file type")
_create_loader(file_path) == lower(suffix(file_path)) \in EXTENSIONS_TO_LOADERS

\* an empty collection
NoPoints == [file_path \in Files |-> 0]

\* Indexer._setup_collection. fault: the Qdrant call that raises, or "none"
_setup_collection(q, pool_name, fault) ==
    IF fault = "collection_exists" THEN [qdrant |-> q, raised |-> TRUE]
    ELSE LET created == IF pool_name \in DOMAIN q THEN q ELSE q @@ (pool_name :> NoPoints)
         IN  [qdrant |-> created, raised |-> (fault = "create_payload_index")]

\* a mutant of StorageDict_getitem: the key is cached although the set-up
\* raised
StorageDict_getitem_cacheOnFail(stores, q, key, fault) ==
    IF key \in Range(stores) THEN [stores |-> stores, qdrant |-> q, raised |-> FALSE]
    ELSE LET s == _setup_collection(q, key, fault)
         IN  [stores |-> Append(stores, key), qdrant |-> s.qdrant, raised |-> s.raised]

\* self.document_stores[key]: StorageDict.__missing__ sets the collection up
\* and caches it when the key is not cached yet
StorageDict_getitem(stores, q, key, fault) ==
    IF key \in Range(stores) THEN [stores |-> stores, qdrant |-> q, raised |-> FALSE]
    ELSE LET s == _setup_collection(q, key, fault)
         IN  [stores |-> IF s.raised THEN stores ELSE Append(stores, key),
              qdrant |-> s.qdrant, raised |-> s.raised]

\* a mutant of FilterMatches: the filter selects nothing
FilterMatches_nothing(file_path, pool_files_to_remove) == FALSE

\* Filter(must=[FieldCondition(key="metadata.file_path", match=MatchValue(fpath))
\* for fpath in pool_files_to_remove]): a point matches when its
\* metadata.file_path meets every condition of must
FilterMatches(file_path, pool_files_to_remove) ==
    \A i \in 1..Len(pool_files_to_remove) : file_path = pool_files_to_remove[i]

\* the loop of Indexer.remove_from_storage from the k-th cached pool on.
\* fault: qdrant.delete raises
RECURSIVE remove_from_pools(_, _, _, _, _)
remove_from_pools(q, stores, k, files_to_remove, fault) ==
    IF k > Len(stores) THEN [qdrant |-> q, raised |-> FALSE]
    ELSE LET poolname == stores[k]
             pool_files_to_remove ==
                 SelectSeq(files_to_remove, LAMBDA fpath : PoolOf[fpath] = poolname)
         IN  IF pool_files_to_remove = <<>>
             THEN remove_from_pools(q, stores, k + 1, files_to_remove, fault)
             ELSE IF fault \/ poolname \notin DOMAIN q
             THEN [qdrant |-> q, raised |-> TRUE]
             ELSE remove_from_pools(
                      [q EXCEPT ![poolname] =
                          [file_path \in Files |->
                              IF FilterMatches(file_path, pool_files_to_remove)
                              THEN 0 ELSE @[file_path]]],
                      stores, k + 1, files_to_remove, fault)

\* Indexer.remove_from_storage
remove_from_storage(q, stores, files_to_remove, fault) ==
    remove_from_pools(q, stores, 1, files_to_remove, fault)

\* a mutant of _process_file: the documents go to the collection "default"
_process_file_defaultPool(q, file_path, n, fault) ==
    LET poolname == "default"
    IN  IF fault = "load_and_split" \/ n = 0 THEN [qdrant |-> q, ids |-> 0]
        ELSE IF fault = "add_documents" \/ poolname \notin DOMAIN q
        THEN [qdrant |-> q, ids |-> 0]
        ELSE [qdrant |-> [q EXCEPT ![poolname][file_path] = @ + n], ids |-> n]

\* Indexer._process_file: n documents come out of load_and_split, each gets
\* metadata file_path and a fresh uuid, and add_documents writes them to the
\* collection of the file's pool. fault: "load_and_split" or "add_documents"
\* raises, or "none"; every exception is caught and [] returned.
\* ids: the number of ids returned
_process_file(q, file_path, n, fault) ==
    LET poolname == PoolOf[file_path]
    IN  IF fault = "load_and_split" \/ n = 0 THEN [qdrant |-> q, ids |-> 0]
        ELSE IF fault = "add_documents" \/ poolname \notin DOMAIN q
        THEN [qdrant |-> q, ids |-> 0]
        ELSE [qdrant |-> [q EXCEPT ![poolname][file_path] = @ + n], ids |-> n]

\* number of points of collection c
RECURSIVE CountPoints(_, _)
CountPoints(c, files) ==
    IF files = {} THEN 0
    ELSE LET f == CHOOSE f \in files : TRUE IN c[f] + CountPoints(c, files \ {f})

\* number of points in all collections
RECURSIVE TotalPoints(_, _)
TotalPoints(q, pools) ==
    IF pools = {} THEN 0
    ELSE LET pl == CHOOSE pl \in pools : TRUE
         IN  CountPoints(q[pl], Files) + TotalPoints(q, pools \ {pl})

-----------------------------------------------------------------------------
(* The consumer's handlers as actions of the indexing pipeline *)

\* the record of a handler call: its arguments, the IndexingStatus that
\* check_needs_indexing returned ("raised" when index() raised before it),
\* whether the session of check_needs_indexing raised, the number of points
\* the path had in its pool when a re-indexing pass began, whether
\* qdrant.delete raised, the number of ids _process_file returned, and the
\* list find_removed_files returned
NoCall ==
    [op |-> "none", path |-> "", last_updated_seconds |-> 0, status |-> "none",
     session_raised |-> FALSE, points_before |-> 0, delete_raised |-> FALSE,
     ids |-> 0, existing_file_paths |-> {}, removed_files |-> <<>>, files |-> <<>>,
     documents |-> 0, request |-> <<>>]

\* the external call that raises during one index() pass, or "none"
Faults ==
    {"none", "collection_exists", "create_payload_index", "session", "delete",
     "load_and_split", "add_documents"}

\* Indexer.__init__ of a new process: the pool cache starts empty, the SQLite
\* file and the Qdrant collections are those the last process left
Indexer_init ==
    /\ document_stores' = <<>>
    /\ call' = [NoCall EXCEPT !.op = "init"]
    /\ UNCHANGED <<docs, qdrant, sess, tasks, queue, app, chain, route, search, high, disk, chat, upload>>

\* a mutant of index: a failure of the deletion ends the pass
index_abortOnDelete(path, last_updated_seconds, n, fault) ==
    LET poolname == PoolOf[path]
        g == StorageDict_getitem(document_stores, qdrant, poolname, fault)
        c == check_needs_indexing(docs, path, last_updated_seconds, fault = "session")
        r == IF c.status = need_reindexing
             THEN remove_from_storage(g.qdrant, g.stores, <<path>>, fault = "delete")
             ELSE [qdrant |-> g.qdrant, raised |-> FALSE]
        p == IF _create_loader(path) /\ ~r.raised
             THEN _process_file(r.qdrant, path, n, fault)
             ELSE [qdrant |-> r.qdrant, ids |-> 0]
        this == [NoCall EXCEPT !.op = "index", !.path = path,
                               !.last_updated_seconds = last_updated_seconds]
    IN  IF g.raised
        THEN \* self.document_stores[poolname] raised: index() raises before the check
             /\ qdrant' = g.qdrant
             /\ document_stores' = g.stores
             /\ call' = [this EXCEPT !.status = "raised"]
             /\ UNCHANGED docs
        ELSE IF c.status = no_need_reindexing
        THEN /\ qdrant' = g.qdrant
             /\ document_stores' = g.stores
             /\ call' = [this EXCEPT !.status = c.status,
                                     !.session_raised = (fault = "session")]
             /\ UNCHANGED docs
        ELSE /\ TotalPoints(p.qdrant, DOMAIN p.qdrant) <= MaxPoints
             /\ docs' = c.docs
             /\ qdrant' = p.qdrant
             /\ document_stores' = g.stores
             /\ call' = [this EXCEPT !.status = c.status, !.ids = p.ids,
                                     !.documents = n,
                                     !.session_raised = (fault = "session"),
                                     !.points_before =
                                         IF c.status = need_reindexing
                                         THEN g.qdrant[poolname][path] ELSE 0,
                                     !.delete_raised = r.raised]

\* Indexer.index(message) for a FileEvent. n: the number of documents the
\* loader returns; fault: the external call that raises during this pass
index(path, last_updated_seconds, n, fault) ==
    LET poolname == PoolOf[path]
        g == StorageDict_getitem(document_stores, qdrant, poolname, fault)
        c == check_needs_indexing(docs, path, last_updated_seconds, fault = "session")
        r == IF c.status = need_reindexing
             THEN remove_from_storage(g.qdrant, g.stores, <<path>>, fault = "delete")
             ELSE [qdrant |-> g.qdrant, raised |-> FALSE]
        p == IF _create_loader(path)
             THEN _process_file(r.qdrant, path, n, fault)
             ELSE [qdrant |-> r.qdrant, ids |-> 0]
        this == [NoCall EXCEPT !.op = "index", !.path = path,
                               !.last_updated_seconds = last_updated_seconds]
    IN  IF g.raised
        THEN \* self.document_stores[poolname] raised: index() raises before the check
             /\ qdrant' = g.qdrant
             /\ document_stores' = g.stores
             /\ call' = [this EXCEPT !.status = "raised"]
             /\ UNCHANGED docs
        ELSE IF c.status = no_need_reindexing
        THEN /\ qdrant' = g.qdrant
             /\ document_stores' = g.stores
             /\ call' = [this EXCEPT !.status = c.status,
                                     !.session_raised = (fault = "session")]
             /\ UNCHANGED docs
        ELSE /\ TotalPoints(p.qdrant, DOMAIN p.qdrant) <= MaxPoints
             /\ docs' = c.docs
             /\ qdrant' = p.qdrant
             /\ document_stores' = g.stores
             /\ call' = [this EXCEPT !.status = c.status, !.ids = p.ids,
                                     !.documents = n,
                                     !.session_raised = (fault = "session"),
                                     !.points_before =
                                         IF c.status = need_reindexing
                                         THEN g.qdrant[poolname][path] ELSE 0,
                                     !.delete_raised = r.raised]

\* Indexer.purge(message) for a PurgeEvent
purge(existing_file_paths) ==
    LET f == find_removed_files(docs, existing_file_paths)
        r == IF ~f.raised /\ Len(f.removed_files) > 0
             THEN remove_from_storage(qdrant, document_stores, f.removed_files, FALSE)
             ELSE [qdrant |-> qdrant, raised |-> FALSE]
    IN  /\ docs' = f.docs
        /\ qdrant' = r.qdrant
        /\ call' = [NoCall EXCEPT !.op = "purge",
                                  !.existing_file_paths = existing_file_paths,
                                  !.removed_files = f.removed_files,
                                  !.status = IF f.raised \/ r.raised THEN "raised" ELSE "none",
                                  !.delete_raised = r.raised]
        /\ UNCHANGED document_stores

\* the consumer handles a FileEvent for one of the paths of files, during
\* which one of faults happens
IndexStep(files, faults) ==
    \E path \in files, last_updated_seconds \in Times, n \in 0..MaxDocuments,
       fault \in faults :
        /\ index(path, last_updated_seconds, n, fault)
        /\ UNCHANGED <<sess, tasks, queue, app, chain, route, search, high, disk, chat, upload>>

\* the consumer handles a PurgeEvent that lists some of the paths of files
PurgeStep(files) ==
    \E existing_file_paths \in SUBSET files :
        /\ purge(existing_file_paths)
        /\ UNCHANGED <<sess, tasks, queue, app, chain, route, search, high, disk, chat, upload>>

\* the two sessions before their first call
NoSessions ==
    [s \in {1, 2} |-> [pc |-> "idle", fpath |-> "", last_updated_seconds |-> 0,
                       seen |-> None, status |-> "none"]]

\* the index_loop tasks of earlier runs of trigger_re_indexer that the model
\* keeps beside those of the latest run
MaxLeft == 1

\* the index_loop tasks that a run of trigger_re_indexer left running when
\* its gather raised
LeftIds == {<<"left.index_loop.1", "left.index_loop.2">>[i] : i \in 1..MaxLeft}

\* the tasks that app.py creates on the work queue: those of lifespan, those
\* of the latest trigger_re_indexer, and those an earlier run left running
TaskIds ==
    {"lifespan.crawl_loop", "lifespan.index_loop", "trigger.crawl_loop",
     "trigger.index_loop"} \cup LeftIds

NoMessage ==
    [type |-> "none", path |-> "", file_id |-> "", last_updated_seconds |-> 0,
     existing_file_paths |-> {},
     user_id |-> ""]

\* a task that was not created yet. left: the files a crawl has not reached;
\* emitted: the paths of the FileEvents it has enqueued; busy: the message a
\* consumer is handling
NoTask == [state |-> "none", left |-> {}, emitted |-> {}, busy |-> NoMessage]

NoTasks == [t \in TaskIds |-> NoTask]

\* the content of a message: its text, for an answer of the chat model the
\* number that tells it from the other answers of the run, and for a formatted
\* search result the file_path of each "[Document i - file_path]" heading
Content(text, n, file_paths) == [text |-> text, n |-> n, file_paths |-> file_paths]

NoContent == Content("", 0, <<>>)

\* OpenAIChain before invoke()
NoRun ==
    [node |-> "idle", messages |-> <<>>, visited |-> <<>>, raised |-> "none",
     result |-> [status |-> "none", answer |-> NoContent, links |-> {}]]

\* no call of the pool routing yet
NoRoute == [file_path |-> <<>>, container_path |-> Unset, pn |-> <<>>, raised |-> FALSE,
            calls |-> 0]

\* no search yet
NoSearch ==
    [calls |-> 0, op |-> "none", pool |-> "", ranked |-> <<>>, found |-> <<>>,
     raised |-> FALSE, result |-> [error |-> FALSE, links |-> {}, output |-> <<>>]]

\* no timestamp stored yet for any path
NoHigh == [p \in Paths |-> None]

\* the two loops of a websocket connection before the first text arrives
NoChat ==
    [questions |-> <<>>, responses |-> <<>>, socket |-> "running",
     answerer |-> "running", received |-> 0]

\* no upload request is being served
NoUpload == [active |-> FALSE, files |-> <<>>, stage |-> <<>>]

\* one file in each of two pools
OnePerPool == {"/w/a/x.md", "/w/r.md"}

\* the files on disk when the application starts: those under the watch
\* root, and under LOCAL_FILES_PATH the files of a deployment from before the
\* user directories, one of which has been copied to default_user already
Disk == OnePerPool \cup {"/w/a/x.bin", "/l/x.md", "/l/y.md", "/l/default_user/y.md"}

Init ==
    /\ search = NoSearch
    /\ high = NoHigh
    /\ route = NoRoute
    /\ chain = NoRun
    /\ docs = <<>>
    /\ qdrant = <<>>
    /\ document_stores = <<>>
    /\ call = NoCall
    /\ sess = NoSessions
    /\ tasks = NoTasks
    /\ queue = <<>>
    /\ app = "created"
    /\ disk = Disk
    /\ chat = NoChat
    /\ upload = NoUpload

\* The indexing pipeline on one file per pool
Next == IndexStep(OnePerPool, Faults) \/ PurgeStep(OnePerPool) \/ Indexer_init

Spec == Init /\ [][Next]_vars

\* The indexing pipeline of one process on all paths, two of which share pool
\* "a", when no external call raises
NextAllPaths == IndexStep(Paths, {"none"}) \/ PurgeStep(Paths)

SpecAllPaths == Init /\ [][NextAllPaths]_vars

-----------------------------------------------------------------------------
(* Two sessions inside check_needs_indexing *)

\* check_needs_indexing opens a Session and selects the row of fpath; the
\* select takes no lock that outlasts it
SessionSelect(s, fpath, last_updated_seconds) ==
    /\ sess[s].pc \in {"idle", "returned"}
    /\ sess' = [sess EXCEPT ![s] = [pc |-> "selected", fpath |-> fpath,
                                    last_updated_seconds |-> last_updated_seconds,
                                    seen |-> LastStored(docs, fpath),
                                    status |-> "none"]]
    /\ UNCHANGED <<docs, qdrant, document_stores, call, tasks, queue, app, chain, route, search, high, disk, chat, upload>>

\* the rest of check_needs_indexing: the comparison with the row that was
\* read, the INSERT or UPDATE, the commit and the return. An INSERT of a path
\* that has a row by now violates the primary key, an UPDATE finds its row by
\* fpath; a session that raises returns no_need_reindexing
SessionCommit(s) ==
    LET me == sess[s]
        i == SelectFirst(docs, me.fpath)
        insert == me.seen = None
        update == me.seen # None /\ TimestampChanged(me.seen, me.last_updated_seconds)
        raises == (insert /\ i # 0) \/ (update /\ i = 0)
        status == IF raises THEN no_need_reindexing
                  ELSE IF insert THEN new_file
                  ELSE IF update THEN need_reindexing
                  ELSE no_need_reindexing
    IN  /\ me.pc = "selected"
        /\ docs' = IF raises THEN docs
                   ELSE IF insert
                   THEN Append(docs, MinimaDoc(me.fpath, me.last_updated_seconds))
                   ELSE IF update
                   THEN [docs EXCEPT ![i].last_updated_seconds = me.last_updated_seconds]
                   ELSE docs
        /\ sess' = [sess EXCEPT ![s].pc = "returned", ![s].status = status]
        /\ UNCHANGED <<qdrant, document_stores, call, tasks, queue, app, chain, route, search, high, disk, chat, upload>>

NextSessions ==
    \/ \E s \in {1, 2}, fpath \in OnePerPool, last_updated_seconds \in Times :
           SessionSelect(s, fpath, last_updated_seconds)
    \/ \E s \in {1, 2} : SessionCommit(s)

SpecSessions == Init /\ [][NextSessions]_vars

-----------------------------------------------------------------------------
(* app.py: the tasks on the work queue *)

\* the index_loop tasks that are running
Consumers ==
    {t \in {"lifespan.index_loop", "trigger.index_loop"} \cup LeftIds :
        tasks[t].state = "active"}

\* the modification time of each file on disk
Mtime == [p \in Files |-> IF p \in {"/w/r.md", "/l/a/x.md"} THEN MaxTime ELSE 1]

\* the path is under the watch root
UnderRoot(p) ==
    /\ Len(Chars[p]) >= Len(Chars[CONTAINER_PATH])
    /\ SubSeq(Chars[p], 1, Len(Chars[CONTAINER_PATH])) = Chars[CONTAINER_PATH]

\* the files under the watch root whose extension is in the supported set
Enumerated == {p \in disk : UnderRoot(p) /\ _create_loader(p)}

\* a task that has just been created: a crawl has every supported file left
\* to reach
NewTask(t) ==
    [state |-> "active",
     left |-> IF t \in {"lifespan.crawl_loop", "trigger.crawl_loop"} THEN Enumerated ELSE {},
     emitted |-> {},
     busy |-> NoMessage]

\* lifespan up to its yield: it creates a crawl_loop and an index_loop task
\* and awaits schedule_reindexing, which starts the repetition of
\* trigger_re_indexer
lifespan_startup ==
    /\ app = "created"
    /\ app' = "running"
    /\ tasks' = [tasks EXCEPT !["lifespan.crawl_loop"] = NewTask("lifespan.crawl_loop"),
                              !["lifespan.index_loop"] = NewTask("lifespan.index_loop")]
    /\ UNCHANGED <<docs, qdrant, document_stores, call, sess, queue, chain, route, search, high, disk, chat, upload>>

\* trigger_re_indexer, repeated by schedule_reindexing once its last run has
\* returned: it awaits gather(crawl_loop(async_queue), index_loop(async_queue,
\* indexer)). The last run has returned when both loops have, or when the
\* crawl_loop raised: the gather, which has no return_exceptions, raises at
\* once, the except clause logs and the index_loop of that run is left
\* running beside the tasks of the next run. At most MaxLeft such tasks are
\* kept
trigger_re_indexer ==
    /\ app # "created"
    /\ LET crawl_task == tasks["trigger.crawl_loop"]
           index_task == tasks["trigger.index_loop"]
           fresh == [tasks EXCEPT !["trigger.crawl_loop"] = NewTask("trigger.crawl_loop"),
                                  !["trigger.index_loop"] = NewTask("trigger.index_loop")]
       IN  \/ /\ crawl_task.state # "active"
              /\ index_task.state # "active"
              /\ tasks' = fresh
           \/ /\ crawl_task.state = "abandoned"
              /\ index_task.state = "active"
              /\ \E l \in LeftIds :
                     /\ tasks[l].state # "active"
                     /\ tasks' = [fresh EXCEPT ![l] = index_task]
    /\ UNCHANGED <<docs, qdrant, document_stores, call, sess, queue, app, chain, route, search, high, disk, chat, upload>>

\* lifespan after its yield, up to the await: task.cancel() on the two tasks
\* it created. The request has no effect on a task that has returned; a
\* running task is at an await and takes no further step of its own
lifespan_shutdown ==
    /\ app = "running"
    /\ app' = "stopping"
    /\ tasks' = [t \in TaskIds |->
                    IF t \in {"lifespan.crawl_loop", "lifespan.index_loop"}
                       /\ tasks[t].state = "active"
                    THEN [tasks[t] EXCEPT !.state = "cancelling"]
                    ELSE tasks[t]]
    /\ UNCHANGED <<docs, qdrant, document_stores, call, sess, queue, chain, route, search, high, disk, chat, upload>>

\* CancelledError is thrown into the task at its await and the task ends;
\* the message it was handling is not finished
task_cancelled(t) ==
    /\ t \in TaskIds
    /\ tasks[t].state = "cancelling"
    /\ tasks' = [tasks EXCEPT ![t].state = "cancelled", ![t].busy = NoMessage]
    /\ UNCHANGED <<docs, qdrant, document_stores, call, sess, queue, app, chain, route,
                   search, high, disk, chat, upload>>

\* await asyncio.gather(*tasks, return_exceptions=True) returns once both
\* tasks have ended, and lifespan ends
lifespan_gathered ==
    /\ app = "stopping"
    /\ \A t \in {"lifespan.crawl_loop", "lifespan.index_loop"} :
           tasks[t].state \notin {"active", "cancelling"}
    /\ app' = "stopped"
    /\ UNCHANGED <<docs, qdrant, document_stores, call, sess, tasks, queue, chain, route,
                   search, high, disk, chat, upload>>

\* crawl_loop enqueues the FileEvent of one more file, with the file's
\* modification time
crawl_file(t) ==
    /\ t \in {"lifespan.crawl_loop", "trigger.crawl_loop"}
    /\ tasks[t].state = "active"
    /\ \E path \in tasks[t].left :
        /\ queue' = Append(queue, [NoMessage EXCEPT !.type = "file", !.path = path, !.file_id = path,
                                                    !.last_updated_seconds = Mtime[path]])
        /\ tasks' = [tasks EXCEPT ![t].left = @ \ {path},
                                  ![t].emitted = @ \cup {path}]
    /\ UNCHANGED <<docs, qdrant, document_stores, call, sess, app, chain, route, search, high, disk, chat, upload>>

\* crawl_loop fails to enumerate one file: the failure is logged, the file is
\* skipped and the walk goes on
crawl_skip(t) ==
    /\ t \in {"lifespan.crawl_loop", "trigger.crawl_loop"}
    /\ tasks[t].state = "active"
    /\ \E path \in tasks[t].left : tasks' = [tasks EXCEPT ![t].left = @ \ {path}]
    /\ UNCHANGED <<docs, qdrant, document_stores, call, sess, queue, app, chain, route,
                   search, high, disk, chat, upload>>

\* the walk as a whole fails: the failure is logged and the tick is
\* abandoned, by crawl_loop itself, which returns, or by its caller when
\* crawl_loop raises
crawl_abandon(t) ==
    /\ t \in {"lifespan.crawl_loop", "trigger.crawl_loop"}
    /\ tasks[t].state = "active"
    /\ tasks' = [tasks EXCEPT ![t].state = "abandoned"]
    /\ UNCHANGED <<docs, qdrant, document_stores, call, sess, queue, app, chain, route,
                   search, high, disk, chat, upload>>

\* a mutant of crawl_purge: the PurgeEvent carries every supported file under
\* the watch root
crawl_purge_allFiles(t) ==
    /\ t \in {"lifespan.crawl_loop", "trigger.crawl_loop"}
    /\ tasks[t].state = "active"
    /\ tasks[t].left = {}
    /\ queue' = Append(queue, [NoMessage EXCEPT !.type = "purge",
                                                !.existing_file_paths = Enumerated])
    /\ tasks' = [tasks EXCEPT ![t].state = "done"]
    /\ UNCHANGED <<docs, qdrant, document_stores, call, sess, app, chain, route, search, high, disk, chat, upload>>

\* crawl_loop has walked every file: it enqueues the PurgeEvent with the
\* paths it enumerated and returns
crawl_purge(t) ==
    /\ t \in {"lifespan.crawl_loop", "trigger.crawl_loop"}
    /\ tasks[t].state = "active"
    /\ tasks[t].left = {}
    /\ queue' = Append(queue, [NoMessage EXCEPT !.type = "purge",
                                                !.existing_file_paths = tasks[t].emitted])
    /\ tasks' = [tasks EXCEPT ![t].state = "done"]
    /\ UNCHANGED <<docs, qdrant, document_stores, call, sess, app, chain, route, search, high, disk, chat, upload>>

\* app.py SUPPORTED_EXTENSIONS
SUPPORTED_EXTENSIONS ==
    {<<".", "p", "d", "f">>, <<".", "x", "l", "s">>, <<".", "x", "l", "s", "x">>,
     <<".", "d", "o", "c">>, <<".", "d", "o", "c", "x">>, <<".", "t", "x", "t">>,
     <<".", "m", "d">>, <<".", "c", "s", "v">>, <<".", "p", "p", "t">>,
     <<".", "p", "p", "t", "x">>}

\* the names of the files a client uploads
Filenames == {"x.md", "x.html"}

\* get_user_id(request): the X-User-Id header of the one user of the model
UserId == "a"

\* str(user_dir / file.filename), user_dir being LOCAL_FILES_PATH / user_id
SavedPath ==
    [filename \in Filenames |->
        Str(Chars[LOCAL_FILES_PATH] \o <<"/">> \o Chars[UserId] \o <<"/">>
                \o Chars[filename])]

\* an uploaded file: its name, and whether reading it and writing it to disk
\* succeed
Uploads == [filename : Filenames, saved : BOOLEAN]

\* a mutant of save_file: the extension is not checked
save_file_anyExtension(file) ==
    LET file_path == SavedPath[file.filename]
    IN  [created |-> TRUE,
         written |-> file.saved,
         path |-> file_path,
         message |-> [NoMessage EXCEPT !.type = "file",
                                       !.path = file_path,
                                       !.file_id = file_path,
                                       !.last_updated_seconds = MaxTime,
                                       !.user_id = UserId]]

\* save_file(file) inside add_files. created: the extension is supported, so
\* aiofiles.open(file_path, 'wb') creates the file; written: file.read() and
\* f.write() go through as well; message: what is then built from os.stat,
\* the file having the latest modification time, and enqueued
save_file(file) ==
    LET file_path == SavedPath[file.filename]
        supported == lower(suffix(file.filename)) \in SUPPORTED_EXTENSIONS
    IN  [created |-> supported,
         written |-> supported /\ file.saved,
         path |-> file_path,
         message |-> [NoMessage EXCEPT !.type = "file",
                                       !.path = file_path,
                                       !.file_id = file_path,
                                       !.last_updated_seconds = MaxTime,
                                       !.user_id = UserId]]

\* POST /files/add up to asyncio.gather: one save_file coroutine per file.
\* LOCAL_FILES_PATH is set, indexer.py reads it when it is imported. One
\* request is served at a time, and requests arrive while the queue has
\* fewer than MaxQueue messages, those of the request counted
add_files(files) ==
    /\ app = "running"
    /\ ~upload.active
    /\ Len(queue) + Len(files) <= MaxQueue
    /\ upload' = [active |-> TRUE, files |-> files,
                  stage |-> [i \in 1..Len(files) |-> "start"]]
    /\ UNCHANGED <<docs, qdrant, document_stores, call, sess, tasks, queue, app, chain,
                   route, search, high, disk, chat>>

\* save_file of the i-th file up to aiofiles.open: for an unsupported
\* extension it returns None at once; otherwise the file is created and the
\* coroutine waits inside the async with block
save_file_open(i) ==
    /\ upload.active
    /\ i \in DOMAIN upload.stage
    /\ upload.stage[i] = "start"
    /\ LET s == save_file(upload.files[i])
       IN  /\ disk' = IF s.created THEN disk \cup {s.path} ELSE disk
           /\ upload' = [upload EXCEPT !.stage[i] = IF s.created THEN "opened" ELSE "none"]
    /\ UNCHANGED <<docs, qdrant, document_stores, call, sess, tasks, queue, app, chain,
                   route, search, high, chat>>

\* save_file of the i-th file inside the block: await file.read(), which
\* may raise for a file that is not saved; the file stays on disk and the
\* coroutine waits again before it writes
save_file_read(i) ==
    /\ upload.active
    /\ i \in DOMAIN upload.stage
    /\ upload.stage[i] = "opened"
    /\ \E stage \in IF save_file(upload.files[i]).written THEN {"read"}
                     ELSE {"read", "failed"} :
           upload' = [upload EXCEPT !.stage[i] = stage]
    /\ UNCHANGED <<docs, qdrant, document_stores, call, sess, tasks, queue, app, chain,
                   route, search, high, disk, chat>>

\* save_file of the i-th file inside the block: await f.write(content), which
\* raises for a file that is not saved; the file stays on disk
save_file_write(i) ==
    /\ upload.active
    /\ i \in DOMAIN upload.stage
    /\ upload.stage[i] = "read"
    /\ upload' = [upload EXCEPT
                      !.stage[i] = IF save_file(upload.files[i]).written
                                   THEN "written" ELSE "failed"]
    /\ UNCHANGED <<docs, qdrant, document_stores, call, sess, tasks, queue, app, chain,
                   route, search, high, disk, chat>>

\* the end of the async with block of the i-th file: the file is closed;
\* after an exception in the block the except clause then returns None
save_file_close(i) ==
    /\ upload.active
    /\ i \in DOMAIN upload.stage
    /\ upload.stage[i] \in {"written", "failed"}
    /\ upload' = [upload EXCEPT
                      !.stage[i] = IF upload.stage[i] = "written" THEN "closed" ELSE "none"]
    /\ UNCHANGED <<docs, qdrant, document_stores, call, sess, tasks, queue, app, chain,
                   route, search, high, disk, chat>>

\* save_file of the i-th file after the block: os.stat and
\* async_queue.enqueue, with no await between them
save_file_enqueue(i) ==
    /\ upload.active
    /\ i \in DOMAIN upload.stage
    /\ upload.stage[i] = "closed"
    /\ queue' = Append(queue, save_file(upload.files[i]).message)
    /\ upload' = [upload EXCEPT !.stage[i] = "enqueued"]
    /\ UNCHANGED <<docs, qdrant, document_stores, call, sess, tasks, app, chain, route,
                   search, high, disk, chat>>

\* the indices of seq, in order
Indices(seq) == [i \in 1..Len(seq) |-> i]

\* add_files after asyncio.gather: the paths that save_file returned, in the
\* order of the request, and the response. status: "400" for the
\* HTTPException when no file was uploaded and there are errors, else the
\* status of the FileUploadResponse
add_files_respond ==
    /\ upload.active
    /\ \A i \in DOMAIN upload.stage : upload.stage[i] \in {"enqueued", "none"}
    /\ LET uploaded_files ==
               SelectSeq(Indices(upload.files), LAMBDA i : upload.stage[i] = "enqueued")
           errors == SelectSeq(Indices(upload.files), LAMBDA i : upload.stage[i] = "none")
       IN  call' = [NoCall EXCEPT
                       !.op = "add_files",
                       !.request = upload.files,
                       !.status = IF uploaded_files = <<>> /\ errors # <<>> THEN "400"
                                  ELSE IF uploaded_files # <<>> THEN "success"
                                  ELSE "partial",
                       !.files = [k \in 1..Len(uploaded_files) |->
                                     save_file(upload.files[uploaded_files[k]]).path]]
    /\ upload' = NoUpload
    /\ UNCHANGED <<docs, qdrant, document_stores, sess, tasks, queue, app, chain, route,
                   search, high, disk, chat>>

\* a request with one file that is written without an error
upload_one(filename) == add_files(<<[filename |-> filename, saved |-> TRUE]>>)

\* the steps of the request that is being served
UploadSteps ==
    \/ \E i \in 1..MaxUpload : save_file_open(i)
    \/ \E i \in 1..MaxUpload : save_file_read(i)
    \/ \E i \in 1..MaxUpload : save_file_write(i)
    \/ \E i \in 1..MaxUpload : save_file_close(i)
    \/ \E i \in 1..MaxUpload : save_file_enqueue(i)
    \/ add_files_respond

\* a mutant of index_dequeue: the consumer takes the newest message
index_dequeue_lifo(t) ==
    /\ t \in Consumers
    /\ tasks[t].busy = NoMessage
    /\ queue # <<>>
    /\ queue' = SubSeq(queue, 1, Len(queue) - 1)
    /\ tasks' = [tasks EXCEPT ![t].busy = queue[Len(queue)]]
    /\ UNCHANGED <<docs, qdrant, document_stores, call, sess, app, chain, route, search, high, disk, chat, upload>>

\* index_loop dequeues the next message and starts to handle it
index_dequeue(t) ==
    /\ t \in Consumers
    /\ tasks[t].busy = NoMessage
    /\ queue # <<>>
    /\ queue' = Tail(queue)
    /\ tasks' = [tasks EXCEPT ![t].busy = Head(queue)]
    /\ UNCHANGED <<docs, qdrant, document_stores, call, sess, app, chain, route, search, high, disk, chat, upload>>

\* index_loop has handled its message
index_handled(t) ==
    /\ t \in Consumers
    /\ tasks[t].busy # NoMessage
    /\ tasks' = [tasks EXCEPT ![t].busy = NoMessage]
    /\ UNCHANGED <<docs, qdrant, document_stores, call, sess, queue, app, chain, route, search, high, disk, chat, upload>>

\* index_loop returns once the queue is drained
index_drained(t) ==
    /\ t \in Consumers
    /\ tasks[t].busy = NoMessage
    /\ queue = <<>>
    /\ \A c \in {"lifespan.crawl_loop", "trigger.crawl_loop"} : tasks[c].state # "active"
    /\ tasks' = [tasks EXCEPT ![t].state = "done"]
    /\ UNCHANGED <<docs, qdrant, document_stores, call, sess, queue, app, chain, route, search, high, disk, chat, upload>>

NextTasks ==
    \/ lifespan_startup
    \/ trigger_re_indexer
    \/ lifespan_shutdown
    \/ \E t \in TaskIds : task_cancelled(t)
    \/ lifespan_gathered
    \/ \E filename \in Filenames : upload_one(filename)
    \/ UploadSteps
    \/ \E t \in TaskIds : crawl_file(t)
    \/ \E t \in TaskIds : crawl_purge(t)
    \/ \E t \in TaskIds : index_dequeue(t)
    \/ \E t \in TaskIds : index_handled(t)
    \/ \E t \in TaskIds : index_drained(t)

SpecTasks == Init /\ [][NextTasks]_vars

\* the crawl ticks with the failures of a walk, the consumers that drain the
\* queue, and the shutdown that cancels the tasks of lifespan
NextCrawl ==
    \/ lifespan_startup
    \/ trigger_re_indexer
    \/ lifespan_shutdown
    \/ \E t \in TaskIds : task_cancelled(t)
    \/ lifespan_gathered
    \/ \E t \in TaskIds : crawl_file(t)
    \/ \E t \in TaskIds : crawl_skip(t)
    \/ \E t \in TaskIds : crawl_abandon(t)
    \/ \E t \in TaskIds : crawl_purge(t)
    \/ \E t \in TaskIds : index_dequeue(t)
    \/ \E t \in TaskIds : index_handled(t)

SpecCrawl == Init /\ [][NextCrawl]_vars

-----------------------------------------------------------------------------
(* openai_chain.py: the tool-calling agent *)

\* BaseMessage: name is None ("") unless the constructor is given one
HumanMessage(content) ==
    [type |-> "human", content |-> content, tool_calls |-> <<>>,
     tool_call_id |-> <<>>, name |-> ""]

AIMessage(content, tool_calls) ==
    [type |-> "ai", content |-> content, tool_calls |-> tool_calls,
     tool_call_id |-> <<>>, name |-> ""]

ToolMessage(content, tool_call_id) ==
    [type |-> "tool", content |-> content, tool_calls |-> <<>>,
     tool_call_id |-> tool_call_id, name |-> ""]

\* the tools a response of the chat model can name: the bound tool and one
\* that does not exist
ToolNames == {"search_documents", "other_tool"}

\* the tool_calls of the response at position turn of the history
ToolCalls(turn) ==
    UNION {[1..k -> ToolNames] : k \in 0..MaxToolCalls}

WithIds(names, turn) ==
    [k \in 1..Len(names) |-> [name |-> names[k], id |-> <<turn, k>>]]

\* what retriever.invoke(query) gives: it raises, or returns documents
SearchOutcomes ==
    {[raised |-> TRUE, docs |-> <<>>]} \cup
    {[raised |-> FALSE, docs |-> d] : d \in {<<>>, <<"/w/a/x.md">>, <<"/w/a/x.md", "/w/r.md">>}}

\* search_documents(query), given the documents the retriever returned
search_documents(docs_found) ==
    IF docs_found = <<>> THEN Content("No relevant documents found.", 0, <<>>)
    ELSE Content("[Document i - file_path]", 0, docs_found)

\* the loop of _execute_tools from tool call k on
RECURSIVE execute_from(_, _, _, _)
execute_from(tool_calls, outcomes, k, tool_messages) ==
    IF k > Len(tool_calls) THEN [messages |-> tool_messages, raised |-> FALSE]
    ELSE IF tool_calls[k].name = "search_documents"
    THEN IF outcomes[k].raised THEN [messages |-> tool_messages, raised |-> TRUE]
         ELSE execute_from(tool_calls, outcomes, k + 1,
                           Append(tool_messages,
                                  ToolMessage(search_documents(outcomes[k].docs),
                                              tool_calls[k].id)))
    ELSE execute_from(tool_calls, outcomes, k + 1, tool_messages)

\* OpenAIChain._execute_tools on the state's messages
_execute_tools(messages, outcomes) ==
    LET tool_calls == messages[Len(messages)].tool_calls
    IN  IF tool_calls = <<>> THEN [messages |-> <<>>, raised |-> FALSE]
        ELSE execute_from(tool_calls, outcomes, 1, <<>>)

\* a mutant of _should_continue: the test on tool_calls is inverted
_should_continue_inverted(messages) ==
    IF messages[Len(messages)].tool_calls = <<>> THEN "tools" ELSE "end"

\* OpenAIChain._should_continue
_should_continue(messages) ==
    IF messages[Len(messages)].tool_calls # <<>> THEN "tools" ELSE "end"

\* str.replace(old, new) on characters
RECURSIVE replace(_, _, _)
replace(s, old, new) ==
    IF s = <<>> THEN <<>>
    ELSE IF Len(s) >= Len(old) /\ SubSeq(s, 1, Len(old)) = old
    THEN new \o replace(SubSeq(s, Len(old) + 1, Len(s)), old, new)
    ELSE <<Head(s)>> \o replace(Tail(s), old, new)

\* f"file://{path}" after the container path is replaced by the local path
Link(match) ==
    <<"file://">> \o replace(Chars[match], Chars[CONTAINER_PATH], Chars[LOCAL_FILES_PATH])

\* re.findall(r'\[Document \d+ - (.+?)\]', str(msg.content))
findall(content) == content.file_paths

\* invoke(): the links of the messages whose name is search_documents
extract_links(messages) ==
    UNION {{Link(match) : match \in Range(findall(messages[i].content))} :
              i \in {j \in 1..Len(messages) : messages[j].name = "search_documents"}}

\* a mutant of extract_answer: the test on tool_calls is inverted
extract_answer_inverted(messages) ==
    LET final == {i \in 1..Len(messages) :
                     messages[i].type = "ai" /\ messages[i].tool_calls # <<>>}
    IN  IF final = {} THEN NoContent
        ELSE messages[CHOOSE i \in final : \A j \in final : j <= i].content

\* invoke(): the content of the last AIMessage without tool calls, "" when
\* there is none
extract_answer(messages) ==
    LET final == {i \in 1..Len(messages) :
                     messages[i].type = "ai" /\ messages[i].tool_calls = <<>>}
    IN  IF final = {} THEN NoContent
        ELSE messages[CHOOSE i \in final : \A j \in final : j <= i].content

\* the result of invoke() when graph.invoke raised
ErrorResult == [status |-> "error", answer |-> NoContent, links |-> {}]

\* the number of responses of the chat model in the history
Turns(messages) == Cardinality({i \in 1..Len(messages) : messages[i].type = "ai"})

\* invoke(message) up to the first node: a new thread that holds the question
invoke_start ==
    /\ chain.node \in {"idle", "returned"}
    /\ chain' = [NoRun EXCEPT !.node = "agent",
                              !.messages = <<HumanMessage(Content("question", 0, <<>>))>>,
                              !.visited = <<"agent">>]
    /\ UNCHANGED <<docs, qdrant, document_stores, call, sess, tasks, queue, app, route, search, high, disk, chat, upload>>

\* node agent and its conditional edge: _call_agent appends the response of
\* the chat model, _should_continue picks the next node; when the chat model
\* raises, invoke() returns the error result
agent_node ==
    /\ chain.node = "agent"
    /\ Turns(chain.messages) < MaxTurns
    /\ \E names \in ToolCalls(Len(chain.messages) + 1), fault \in BOOLEAN :
        LET turn == Len(chain.messages) + 1
            response == AIMessage(Content("answer", turn, <<>>), WithIds(names, turn))
            messages == Append(chain.messages, response)
        IN  chain' = IF fault
                     THEN [chain EXCEPT !.node = "returned", !.raised = "llm",
                                        !.result = ErrorResult]
                     ELSE [chain EXCEPT !.messages = messages,
                                        !.node = _should_continue(messages),
                                        !.visited = Append(@, _should_continue(messages))]
    /\ UNCHANGED <<docs, qdrant, document_stores, call, sess, tasks, queue, app, route, search, high, disk, chat, upload>>

\* node tools and its edge to agent: _execute_tools appends the tool messages;
\* when a search raises, invoke() returns the error result
tools_node ==
    /\ chain.node = "tools"
    /\ \E outcomes \in [1..Len(chain.messages[Len(chain.messages)].tool_calls)
                            -> SearchOutcomes] :
        LET e == _execute_tools(chain.messages, outcomes)
        IN  chain' = IF e.raised
                     THEN [chain EXCEPT !.node = "returned", !.raised = "search",
                                        !.result = ErrorResult]
                     ELSE [chain EXCEPT !.messages = @ \o e.messages,
                                        !.node = "agent",
                                        !.visited = Append(@, "agent")]
    /\ UNCHANGED <<docs, qdrant, document_stores, call, sess, tasks, queue, app, route, search, high, disk, chat, upload>>

\* the graph has ended: invoke() extracts the answer and the links and returns
invoke_return ==
    /\ chain.node = "end"
    /\ chain' = [chain EXCEPT !.node = "returned",
                              !.result = [status |-> "ok",
                                          answer |-> extract_answer(chain.messages),
                                          links |-> extract_links(chain.messages)]]
    /\ UNCHANGED <<docs, qdrant, document_stores, call, sess, tasks, queue, app, route, search, high, disk, chat, upload>>

NextAgent == invoke_start \/ agent_node \/ tools_node \/ invoke_return

SpecAgent == Init /\ [][NextAgent]_vars

-----------------------------------------------------------------------------
(* indexer.py: pool routing on arbitrary paths *)

\* the characters of the paths given to the pool routing
Alphabet == {"/", "w", "a"}

\* every path of at most MaxLen characters, the empty one included
AnyPath == UNION {[1..n -> Alphabet] : n \in 0..MaxLen}

\* the watch roots: unset, and /w
Roots == {Unset, Root(Chars[CONTAINER_PATH])}

\* self._poolname_from_file_path(file_path) under a watch root
route_file(fp, container_path) ==
    /\ route' = [file_path |-> fp, container_path |-> container_path,
                 pn |-> poolname_of(fp, container_path).pn,
                 raised |-> poolname_of(fp, container_path).raised,
                 calls |-> route.calls + 1]
    /\ UNCHANGED <<docs, qdrant, document_stores, call, sess, tasks, queue, app, chain, search, high, disk, chat, upload>>

\* the first call, for any path under any watch root
route_first ==
    /\ route.calls = 0
    /\ \E fp \in AnyPath, container_path \in Roots : route_file(fp, container_path)

\* a second call for the same path under the same watch root
route_again ==
    /\ route.calls = 1
    /\ route_file(route.file_path, route.container_path)

NextPool == route_first \/ route_again

SpecPool == Init /\ [][NextPool]_vars

-----------------------------------------------------------------------------
(* Claims on the state store *)

\* index() called check_needs_indexing in the step
Checked == call'.op = "index" /\ call'.status # "raised"

\* C1 as stated: every check_needs_indexing call returns new_file or
\* need_reindexing if and only if the path has no record or the submitted
\* timestamp is strictly greater than the stored one.
C1_Original ==
    [][Checked =>
        LET stored == LastStored(docs, call'.path)
        IN  (call'.status \in {new_file, need_reindexing})
                <=> (stored = None \/ stored < call'.last_updated_seconds)]_vars

\* C1 as amended: a check_needs_indexing call whose session does not raise
\* returns new_file when the path has no record, need_reindexing when the
\* submitted timestamp is strictly greater than the stored one, and
\* no_need_reindexing otherwise; a call whose session raises returns
\* no_need_reindexing.
C1_Monotonic ==
    [][Checked =>
        LET stored == LastStored(docs, call'.path)
        IN  call'.status =
                IF call'.session_raised THEN no_need_reindexing
                ELSE IF stored = None THEN new_file
                ELSE IF stored < call'.last_updated_seconds THEN need_reindexing
                ELSE no_need_reindexing]_vars

\* a call has returned need_reindexing and its timestamp is the stored one
C1_Witness ==
    /\ call.op = "index"
    /\ call.status = need_reindexing
    /\ LastStored(docs, call.path) = call.last_updated_seconds

\* C2: check_needs_indexing that returns new_file has appended exactly one
\* record with the submitted timestamp for a path that had none; one that
\* returns need_reindexing has set the timestamp of the path's record, which was
\* smaller, to the submitted one; one that returns no_need_reindexing has left
\* the table as it was. The records of all other paths are unchanged.
C2_StoreEffect ==
    [][Checked =>
        LET i == SelectFirst(docs, call'.path)
        IN  /\ call'.status = new_file =>
                /\ i = 0
                /\ Len(docs') = Len(docs) + 1
                /\ docs'[Len(docs')] = MinimaDoc(call'.path, call'.last_updated_seconds)
                /\ \A j \in 1..Len(docs) : docs'[j] = docs[j]
            /\ call'.status = need_reindexing =>
                /\ i # 0
                /\ docs[i].last_updated_seconds < call'.last_updated_seconds
                /\ Len(docs') = Len(docs)
                /\ docs'[i] = [docs[i] EXCEPT
                                  !.last_updated_seconds = call'.last_updated_seconds]
                /\ \A j \in 1..Len(docs) : j # i => docs'[j] = docs[j]
            /\ call'.status = no_need_reindexing => docs' = docs]_vars

\* a call has inserted a record into a table that held the record of another path
C2_Witness ==
    /\ call.op = "index"
    /\ call.status = new_file
    /\ Len(docs) >= 2
    /\ docs[Len(docs)].fpath = call.path

\* C3: find_removed_files(E) on stored paths S returns the paths of S \ E, each
\* once, leaves exactly the records of S \cap E in the table, and leaves those
\* records unchanged.
C3_PurgeExact ==
    [][call'.op = "purge" =>
        LET S == StoredPaths(docs)
            E == call'.existing_file_paths
            R == call'.removed_files
        IN  /\ Range(R) = S \ E
            /\ Cardinality(Range(R)) = Len(R)
            /\ StoredPaths(docs') = S \cap E
            /\ \A i \in 1..Len(docs) : docs[i].fpath \in E => docs[i] \in Range(docs')]_vars

\* a purge has removed one record and kept another
C3_Witness ==
    /\ call.op = "purge"
    /\ Len(call.removed_files) >= 1
    /\ Len(docs) >= 1

-----------------------------------------------------------------------------
(* Claims on the vector store *)

\* C4 as stated: after purge() no point of a removed path is left in any
\* collection, and the points of all other paths are as before.
C4_PurgeRemovesChunks ==
    [][call'.op = "purge" /\ call'.status # "raised" =>
        \A pool \in DOMAIN qdrant : \A file_path \in Paths :
            qdrant'[pool][file_path] =
                IF file_path \in Range(call'.removed_files) THEN 0
                ELSE qdrant[pool][file_path]]_vars

\* C5 as stated: remove_from_storage(paths), as purge() calls it, deletes from
\* each cached pool the points of every path of paths that routes to the pool,
\* for one path and for several, and no other point.
C5_RemoveUnion ==
    [][call'.op = "purge" /\ call'.status # "raised" =>
        \A k \in 1..Len(document_stores) : \A file_path \in Paths :
            LET pool == document_stores[k]
            IN  qdrant'[pool][file_path] =
                    IF file_path \in Range(call'.removed_files) /\ PoolOf[file_path] = pool
                    THEN 0 ELSE qdrant[pool][file_path]]_vars

\* C6: index() for a path whose record holds the submitted timestamp writes
\* nothing and deletes nothing: the table and every collection stay as they
\* were.
C6_Idempotent ==
    [][call'.op = "index"
         /\ LastStored(docs, call'.path) = call'.last_updated_seconds =>
        /\ call'.status \in {no_need_reindexing, "raised"}
        /\ call'.ids = 0
        /\ docs' = docs
        /\ qdrant' = qdrant]_vars

\* a FileEvent with the stored timestamp was handled for a path that has points
C6_Witness ==
    /\ call.op = "index"
    /\ call.status = no_need_reindexing
    /\ ~call.session_raised
    /\ LastStored(docs, call.path) = call.last_updated_seconds
    /\ qdrant[PoolOf[call.path]][call.path] > 0

\* C7 as stated: after a re-indexing pass the points of the path in its pool
\* are the points this pass wrote.
C7_Original ==
    call.op = "index" /\ call.status = need_reindexing =>
        qdrant[PoolOf[call.path]][call.path] = call.ids

\* C7 as amended: after a re-indexing pass whose qdrant.delete did not raise,
\* the points of the path in its pool are the points this pass wrote.
C7_ReindexCleanup ==
    call.op = "index" /\ call.status = need_reindexing /\ ~call.delete_raised =>
        qdrant[PoolOf[call.path]][call.path] = call.ids

\* a path that had points was re-indexed, the delete succeeded and new points
\* were written
C7_Witness ==
    /\ call.op = "index"
    /\ call.status = need_reindexing
    /\ ~call.delete_raised
    /\ call.points_before > 0
    /\ call.ids > 0

\* C8 as stated: when index() has indexed or re-indexed a path, its record is
\* indexed, with indexing_time_seconds set, when points were written, and
\* indexed or failed otherwise.
C8_Lifecycle ==
    call.op = "index" /\ call.status \in {new_file, need_reindexing} =>
        LET doc == docs[SelectFirst(docs, call.path)]
        IN  /\ doc.status \in {"indexed", "failed"}
            /\ call.ids > 0 => doc.status = "indexed"
            /\ doc.status = "indexed" => doc.indexing_time_seconds # None

-----------------------------------------------------------------------------
(* Claims on concurrency *)

\* C9 as stated: of two check_needs_indexing calls for the same path with the
\* same timestamp, at most one returns new_file or need_reindexing.
C9_AtMostOneProceeds ==
    ~ /\ sess[1].pc = "returned"
      /\ sess[2].pc = "returned"
      /\ sess[1].fpath = sess[2].fpath
      /\ sess[1].last_updated_seconds = sess[2].last_updated_seconds
      /\ sess[1].status \in {new_file, need_reindexing}
      /\ sess[2].status \in {new_file, need_reindexing}

\* C10 as stated: no two index_loop tasks are active on the queue at a time.
C10_SingleConsumer == Cardinality(Consumers) <= 1

-----------------------------------------------------------------------------
(* Claims on the work queue *)

\* the tasks that received a message in the step
Receivers == {t \in TaskIds : tasks'[t].busy # tasks[t].busy /\ tasks'[t].busy # NoMessage}

\* the tasks and the uploads of SpecTasks, with one file name
NextQueue ==
    \/ lifespan_startup
    \/ trigger_re_indexer
    \/ lifespan_shutdown
    \/ \E t \in TaskIds : task_cancelled(t)
    \/ lifespan_gathered
    \/ upload_one("x.md")
    \/ UploadSteps
    \/ \E t \in TaskIds : crawl_file(t)
    \/ \E t \in TaskIds : crawl_purge(t)
    \/ \E t \in TaskIds : index_dequeue(t)
    \/ \E t \in TaskIds : index_handled(t)
    \/ \E t \in TaskIds : index_drained(t)

\* what the event loop guarantees: it does not stay idle while a task is
\* ready, that is, while a consumer can dequeue, a handler can return, a
\* cancelled task can end, the gather can return or the timer of
\* schedule_reindexing is due; one condition over all of them, weaker than
\* one condition for each. Once lifespan has ended the server exits and the
\* timer starts no further cycle; the consumers that are left are still
\* granted their steps. Requests, the shutdown and the progress of a walk
\* are not guaranteed
QueueFairness ==
    WF_vars(\/ \E t \in TaskIds : index_dequeue(t)
            \/ \E t \in TaskIds : index_handled(t)
            \/ app # "stopped" /\ trigger_re_indexer
            \/ \E t \in TaskIds : task_cancelled(t)
            \/ lifespan_gathered)

SpecQueue == Init /\ [][NextQueue]_vars /\ QueueFairness

\* every step leaves the queue as it is, appends one message at its tail, or
\* removes its head and hands it to exactly one consumer that was waiting;
\* no task receives a message in any other way
QueueSteps ==
    [][\/ queue' = queue /\ Receivers = {}
       \/ /\ Len(queue') = Len(queue) + 1
          /\ SubSeq(queue', 1, Len(queue)) = queue
          /\ Receivers = {}
       \/ /\ queue # <<>>
          /\ queue' = Tail(queue)
          /\ \E t \in Consumers :
                 /\ Receivers = {t}
                 /\ tasks[t].busy = NoMessage
                 /\ tasks'[t].busy = Head(queue)]_vars

\* a producer that has a message to enqueue can enqueue it, whatever the
\* length of the queue and whatever the consumers do; a consumer cannot
\* dequeue from an empty queue, and a waiting consumer can dequeue as soon as
\* the queue holds a message
QueueBlocking ==
    /\ [](\A t \in {"lifespan.crawl_loop", "trigger.crawl_loop"} :
            tasks[t].state = "active" => ENABLED (crawl_file(t) \/ crawl_purge(t)))
    /\ [](\A i \in DOMAIN upload.stage :
            upload.stage[i] = "closed" => ENABLED save_file_enqueue(i))
    /\ [](\A t \in TaskIds : queue = <<>> => ~ENABLED index_dequeue(t))
    /\ [](\A t \in Consumers :
            tasks[t].busy = NoMessage /\ queue # <<>> => ENABLED index_dequeue(t))

\* a consumer that waits at an empty queue stays as it is until a message is
\* enqueued, unless the shutdown cancels it or, with no crawl running, its
\* cycle has run to completion and it returns
QueueSuspends ==
    [][\A t \in Consumers :
          queue = <<>> /\ tasks[t].busy = NoMessage /\ tasks'[t] # tasks[t] =>
              \/ tasks'[t] = [tasks[t] EXCEPT !.state = "cancelling"]
              \/ /\ tasks'[t] = [tasks[t] EXCEPT !.state = "done"]
                 /\ \A c \in {"lifespan.crawl_loop", "trigger.crawl_loop"} :
                        tasks[c].state # "active"]_vars

\* the messages in the queue are dequeued: the queue is empty again and
\* again, or dequeues never cease
QueueDrains == []<>(queue = <<>>) \/ []<><<Len(queue') < Len(queue)>>_vars

\* C11 as stated: the work queue is first-in-first-out and lossless, every
\* message that is enqueued is dequeued, exactly once and in the order of the
\* enqueues, enqueue never blocks the producer, and a consumer at an empty
\* queue receives nothing until a message is enqueued
C11_Original == QueueSteps /\ QueueBlocking /\ QueueDrains

\* C11: the work queue is first-in-first-out and lossless: no message is
\* dropped, none is dequeued twice, and the messages are dequeued in the
\* order of the enqueues; enqueue never blocks the producer; a consumer at an
\* empty queue receives nothing and waits until a message is enqueued, unless
\* it is cancelled or its cycle has run to completion; and unless the
\* application is shut down, every message that is enqueued is dequeued
C11_QueueFifo ==
    QueueSteps /\ QueueBlocking /\ QueueSuspends /\ (<>(app = "stopped") \/ QueueDrains)

\* a consumer handles the message that was enqueued first while a later one,
\* of the upload API, waits in the queue
C11_Witness ==
    /\ \E t \in Consumers : tasks[t].busy.type = "file" /\ tasks[t].busy.path = "/w/r.md"
    /\ Len(queue) >= 1
    /\ queue[Len(queue)].path = "/l/a/x.md"
    /\ queue[Len(queue)].user_id = UserId

-----------------------------------------------------------------------------
(* Claims on failures *)

\* the points of every collection after the step are those before it; a
\* collection the step created is empty
PointsUnchanged ==
    \A pool \in DOMAIN qdrant' : \A file_path \in Paths :
        qdrant'[pool][file_path] =
            IF pool \in DOMAIN qdrant THEN qdrant[pool][file_path] ELSE 0

\* C12: when the session of check_needs_indexing raises, the call returns
\* no_need_reindexing instead of raising, and index() writes no point and
\* deletes none for that FileEvent; the table is as it was.
C12_FailSafe ==
    [][call'.op = "index" /\ call'.session_raised =>
        /\ call'.status = no_need_reindexing
        /\ call'.ids = 0
        /\ docs' = docs
        /\ PointsUnchanged]_vars

\* the session raised for a FileEvent that is newer than the record of its
\* path, which has points
C12_Witness ==
    /\ call.op = "index"
    /\ call.session_raised
    /\ LastStored(docs, call.path) # None
    /\ LastStored(docs, call.path) < call.last_updated_seconds
    /\ qdrant[PoolOf[call.path]][call.path] > 0

\* C13 as stated: index() returns normally for every FileEvent, whatever step
\* of the pass fails.
C13_IndexNeverRaises == call.op = "index" => call.status # "raised"

-----------------------------------------------------------------------------
(* Claims on the retrieval agent *)

\* the responses of the chat model in the history, in order
Responses == SelectSeq(chain.messages, LAMBDA msg : msg.type = "ai")

\* invoke() has returned an answer
Answered == chain.node = "returned" /\ chain.result.status = "ok"

\* C14: a run starts in agent; after agent it is in tools if and only if the
\* latest response requests a tool call, and at the end otherwise; after tools
\* it is in agent again. A run with one response that requests a tool call and
\* then one that requests none has visited agent, tools, agent, end; a run
\* whose first response requests none has visited agent, end and returns no
\* link.
C14_AgentLoop ==
    /\ [][/\ chain.node \in {"idle", "returned"} /\ chain'.node # chain.node =>
                chain'.node = "agent" /\ chain'.visited = <<"agent">>
          /\ chain.node = "agent" /\ chain'.node \notin {"agent", "returned"} =>
                /\ chain'.node = "tools"
                      <=> chain'.messages[Len(chain'.messages)].tool_calls # <<>>
                /\ chain'.node = "end"
                      <=> chain'.messages[Len(chain'.messages)].tool_calls = <<>>
          /\ chain.node = "tools" /\ chain'.node \notin {"tools", "returned"} =>
                chain'.node = "agent"
          /\ chain.node = "end" /\ chain'.node # "end" => chain'.node = "returned"]_vars
    /\ [](Answered =>
            /\ Len(Responses) = 2 /\ Responses[1].tool_calls # <<>> =>
                  chain.visited = <<"agent", "tools", "agent", "end">>
            /\ Responses[1].tool_calls = <<>> =>
                  chain.visited = <<"agent", "end">> /\ chain.result.links = {})

\* a run with a tool call and then an answer has returned
C14_Witness ==
    /\ Answered
    /\ chain.visited = <<"agent", "tools", "agent", "end">>
    /\ Len(Responses[1].tool_calls) = 1

\* the source paths that the tool messages of the history mention
Mentioned ==
    UNION {Range(chain.messages[i].content.file_paths) :
              i \in {j \in 1..Len(chain.messages) : chain.messages[j].type = "tool"}}

\* C15 as stated: the links invoke() returns are the file:// links of the
\* source paths that the tool messages of the run mention, with the container
\* path replaced by the local path.
C15_Links ==
    Answered => chain.result.links = {Link(file_path) : file_path \in Mentioned}

\* C16 as stated: the tools node appends one tool message for each tool call
\* of the latest response, with the id of that call, before the run is in
\* agent again.
C16_OneResultPerCall ==
    [][chain.node = "tools" /\ chain'.node = "agent" =>
        LET tool_calls == chain.messages[Len(chain.messages)].tool_calls
            appended == SubSeq(chain'.messages, Len(chain.messages) + 1,
                               Len(chain'.messages))
        IN  /\ Len(appended) = Len(tool_calls)
            /\ \A k \in 1..Len(appended) :
                   /\ appended[k].type = "tool"
                   /\ appended[k].tool_call_id = tool_calls[k].id]_vars

\* C17 as stated: when a search raises during a tool call, the run goes on with
\* a tool message that says no relevant documents were found, and invoke()
\* returns an answer, not an error result.
C17_SearchFailureSurfaced ==
    chain.raised = "search" =>
        /\ chain.result.status # "error"
        /\ \E i \in 1..Len(chain.messages) :
               /\ chain.messages[i].type = "tool"
               /\ chain.messages[i].content.text = "No relevant documents found."

\* C18: the answer invoke() returns is the content of the last message of the
\* history, which is a response without tool calls; it is the content of no
\* response that requested a tool call.
C18_FinalAnswer ==
    Answered =>
        LET last == chain.messages[Len(chain.messages)]
        IN  /\ last.type = "ai"
            /\ last.tool_calls = <<>>
            /\ chain.result.answer = last.content
            /\ \A i \in 1..Len(chain.messages) :
                   chain.messages[i].type = "ai" /\ chain.messages[i].tool_calls # <<>> =>
                       chain.result.answer # chain.messages[i].content

\* an answer was returned after a response that requested tool calls
C18_Witness ==
    /\ Answered
    /\ Len(Responses) = 2
    /\ Responses[1].tool_calls # <<>>
    /\ chain.result.answer = Responses[2].content

-----------------------------------------------------------------------------
(* Claims on pool routing *)

\* the names of directories and files: one or two characters, no slash
Segments == {<<"a">>, <<"w">>, <<"a", "w">>, <<"w", "a">>}

\* the path of the file under the directories dirs of the watch root
RECURSIVE JoinPath(_, _)
JoinPath(root, parts) ==
    IF parts = <<>> THEN root ELSE JoinPath(root \o <<"/">> \o Head(parts), Tail(parts))

\* C19: under the watch root /w, the pool of the file name in directories dirs
\* of the root is the first directory, and 'default' when the file is in the
\* root itself; two calls with the same path under the same root return the
\* same pool.
C19_PoolOfPath ==
    /\ [](route.calls > 0 /\ ~route.container_path.unset =>
            \A n \in 0..2 : \A dirs \in [1..n -> Segments] : \A name \in Segments :
                route.file_path = JoinPath(route.container_path.chars, dirs \o <<name>>) =>
                    /\ ~route.raised
                    /\ route.pn = IF dirs = <<>> THEN default ELSE dirs[1])
    /\ [][route.calls > 0 /\ route'.calls > route.calls /\ route'.file_path = route.file_path
            /\ route'.container_path = route.container_path =>
                route'.pn = route.pn]_vars

\* the pool of /w/a/w, a file in directory a of the root, was computed
C19_Witness ==
    /\ route.calls > 0
    /\ ~route.container_path.unset
    /\ route.file_path = <<"/", "w", "/", "a", "/", "w">>
    /\ route.pn = <<"a">>

\* C20: for every path and every watch root, unset included,
\* _poolname_from_file_path does not raise and returns a pool name that is
\* not empty; it is 'default' for the empty path, for a path no longer than
\* the root and under an unset root.
C20_PoolTotal ==
    route.calls > 0 =>
        /\ ~route.raised
        /\ route.pn # <<>>
        /\ "/" \notin Range(route.pn)
        /\ (route.container_path.unset
              \/ Len(route.file_path) <= Len(route.container_path.chars)) =>
                route.pn = default

\* the pool of a path was computed under an unset watch root
C20_Witness ==
    /\ route.calls > 0
    /\ route.container_path.unset
    /\ route.file_path = <<"/", "w", "/", "a", "/", "w">>
    /\ route.pn = default

-----------------------------------------------------------------------------
(* Similarity search: Indexer.find and the retriever of the agent's tool *)

\* Config.TOP_K
TOP_K == 20

\* Config.SCORE_THRESHOLD = 0.5, in hundredths
SCORE_THRESHOLD == 50

\* search_kwargs={"k": 5} of the retriever of search_documents
RETRIEVER_K == 5

\* the order in which source paths repeat along a ranking
PathCycles ==
    {<<"/w/a/x.md">>, <<"/w/a/x.md", "/w/a/y.md">>,
     <<"/w/a/y.md", "/w/a/w.md", "/w/a/y.md">>}

\* what Qdrant computes for one query: at points score exactly the threshold,
\* below points score under it, and their source paths repeat as paths says
Rankings ==
    {r \in [at : 0..MaxHits, below : 0..MaxHits, paths : PathCycles] :
        r.at + r.below <= MaxHits}

\* Document.page_content of the i-th point of a ranking
page_content(i) == [text |-> "chunk", n |-> i]

\* the points of a ranking by descending score
Hits(ranked) ==
    [i \in 1..(ranked.at + ranked.below) |->
        [file_path |-> ranked.paths[((i - 1) % Len(ranked.paths)) + 1],
         page_content |-> page_content(i),
         score |-> IF i <= ranked.at THEN SCORE_THRESHOLD ELSE SCORE_THRESHOLD - 1]]

\* the first k elements of s
Take(s, k) == SubSeq(s, 1, IF Len(s) < k THEN Len(s) ELSE k)

\* QdrantVectorStore.similarity_search(query, k, score_threshold): the k best
\* points among those that reach score_threshold, every point when it is None
similarity_search(hits, k, score_threshold) ==
    Take(SelectSeq(hits, LAMBDA h : score_threshold = None \/ h.score >= score_threshold), k)

\* the separator of find()
Separator == [text |-> ".\n\n\n ", n |-> 0]

\* str.join
RECURSIVE join(_, _)
join(sep, results) ==
    IF Len(results) <= 1 THEN results
    ELSE <<Head(results), sep>> \o join(sep, Tail(results))

\* the Qdrant calls of find() that can raise
FindFaults == {"none", "collection_exists", "create_payload_index", "search"}

\* Indexer.find(pool, query). ranked: what Qdrant computes for the query;
\* fault: the Qdrant call that raises, or "none". The look-up of a pool that
\* is not cached is outside the try: when collection_exists raises there or
\* in the set-up, or create_payload_index raises, find() raises and no
\* handle is cached; a search that raises gives the error result
find(pool, ranked, fault) ==
    LET cached == pool \in Range(document_stores)
        g == StorageDict_getitem(document_stores, qdrant, pool, fault)
        found == similarity_search(Hits(ranked), TOP_K, SCORE_THRESHOLD)
        this == [NoSearch EXCEPT !.calls = 1, !.op = "find", !.pool = pool,
                                 !.ranked = ranked]
        error == [error |-> TRUE, links |-> {}, output |-> <<>>]
    IN  IF ~cached /\ fault = "collection_exists"
        THEN /\ search' = [this EXCEPT !.raised = TRUE]
             /\ UNCHANGED <<qdrant, document_stores>>
        ELSE IF ~cached /\ pool \notin DOMAIN qdrant
        THEN /\ search' = [this EXCEPT !.result = error]
             /\ UNCHANGED <<qdrant, document_stores>>
        ELSE /\ document_stores' = g.stores
             /\ qdrant' = g.qdrant
             /\ search' =
                    IF g.raised THEN [this EXCEPT !.raised = TRUE]
                    ELSE IF fault = "search" THEN [this EXCEPT !.result = error]
                    ELSE IF found = <<>>
                    THEN [this EXCEPT
                             !.result = [error |-> FALSE, links |-> {}, output |-> <<>>]]
                    ELSE [this EXCEPT
                             !.found = found,
                             !.result =
                                 [error |-> FALSE,
                                  links |-> {Link(found[i].file_path) : i \in 1..Len(found)},
                                  output |-> join(Separator,
                                                  [i \in 1..Len(found) |->
                                                      found[i].page_content])]]

\* the retriever of search_documents: as_retriever(search_kwargs={"k": 5})
\* and retriever.invoke(query)
retriever_invoke(ranked) ==
    search' = [NoSearch EXCEPT !.calls = 1, !.op = "search_documents",
                               !.ranked = ranked,
                               !.found = similarity_search(Hits(ranked), RETRIEVER_K, None)]

\* a query through Indexer.find
FindStep ==
    /\ search.calls = 0
    /\ \E pool \in Pools, ranked \in Rankings, fault \in FindFaults :
           find(pool, ranked, fault)
    /\ UNCHANGED <<docs, call, sess, tasks, queue, app, chain, route, high, disk, chat, upload>>

\* a search of the agent's tool
ToolSearchStep ==
    /\ search.calls = 0
    /\ \E ranked \in Rankings : retriever_invoke(ranked)
    /\ UNCHANGED <<docs, qdrant, document_stores, call, sess, tasks, queue, app, chain,
                   route, high, disk, chat, upload>>

\* the indexing that precedes the search
SearchSetup ==
    /\ search.calls = 0
    /\ IndexStep({"/w/a/x.md"}, {"none"}) \/ Indexer_init

NextSearch == SearchSetup \/ FindStep \/ ToolSearchStep

SpecSearch == Init /\ [][NextSearch]_vars

\* the k of a search
SearchK == IF search.op = "find" THEN TOP_K ELSE RETRIEVER_K

\* C21: every search, of find() and of the agent's tool, returns at most topK
\* results and only results whose score is at or above the score threshold
C21_SearchBounds ==
    search.calls > 0 /\ ~search.result.error =>
        /\ Len(search.found) <= SearchK
        /\ \A i \in 1..Len(search.found) : search.found[i].score >= SCORE_THRESHOLD

-----------------------------------------------------------------------------
(* The state store called method by method *)

\* MinimaStore.update_indexing_time. fault: the session raises; the except
\* branch logs and the method returns
update_indexing_time(table, fpath, indexing_time_seconds, fault) ==
    LET i == SelectFirst(table, fpath)
    IN  IF fault \/ i = 0 THEN [docs |-> table, raised |-> FALSE]
        ELSE [docs |-> [table EXCEPT ![i].indexing_time_seconds = indexing_time_seconds],
              raised |-> FALSE]

\* a mutant of update_file_status: a missing record is created
update_file_status_upsert(table, fpath, status, fault) ==
    LET i == SelectFirst(table, fpath)
    IN  IF fault THEN [docs |-> table, raised |-> FALSE]
        ELSE IF i = 0
        THEN [docs |-> Append(table, [MinimaDoc(fpath, 0) EXCEPT !.status = status]),
              raised |-> FALSE]
        ELSE [docs |-> [table EXCEPT ![i].status = status], raised |-> FALSE]

\* MinimaStore.update_file_status. fault: the session raises; the except
\* branch logs and the method returns
update_file_status(table, fpath, status, fault) ==
    LET i == SelectFirst(table, fpath)
    IN  IF fault \/ i = 0 THEN [docs |-> table, raised |-> FALSE]
        ELSE [docs |-> [table EXCEPT ![i].status = status], raised |-> FALSE]

\* the result of a store method becomes the state
StoreCall(op, fpath, result, status) ==
    /\ docs' = result.docs
    /\ call' = [NoCall EXCEPT !.op = op, !.path = fpath, !.status = status]
    /\ UNCHANGED <<qdrant, document_stores, sess, tasks, queue, app, chain, route,
                   search, high, disk, chat, upload>>

StoreCheck ==
    \E fpath \in OnePerPool, last_updated_seconds \in Times :
        LET c == check_needs_indexing(docs, fpath, last_updated_seconds, FALSE)
        IN  StoreCall("check_needs_indexing", fpath, c, c.status)

StoreDelete ==
    \E fpath \in OnePerPool :
        LET d == delete_m_doc(docs, fpath)
        IN  StoreCall("delete_m_doc", fpath, d, IF d.raised THEN "raised" ELSE "none")

StoreUpdateTime ==
    \E fpath \in OnePerPool, indexing_time_seconds \in 1..MaxDuration, fault \in BOOLEAN :
        LET u == update_indexing_time(docs, fpath, indexing_time_seconds, fault)
        IN  StoreCall("update_indexing_time", fpath, u,
                      IF u.raised THEN "raised" ELSE "none")

StoreUpdateStatus ==
    \E fpath \in OnePerPool, status \in FileStatus, fault \in BOOLEAN :
        LET u == update_file_status(docs, fpath, status, fault)
        IN  StoreCall("update_file_status", fpath, u,
                      IF u.raised THEN "raised" ELSE "none")

NextStore == StoreCheck \/ StoreDelete \/ StoreUpdateTime \/ StoreUpdateStatus

SpecStore == Init /\ [][NextStore]_vars

\* the rows of table other than the row of fpath, in order
OtherRows(table, fpath) == SelectSeq(table, LAMBDA doc : doc.fpath # fpath)

\* C22: delete_m_doc removes the record of the path and nothing else, and
\* for a path without a record it returns normally and leaves the store
\* unchanged
C22_DeleteTolerant ==
    [][call'.op = "delete_m_doc" =>
          /\ call'.status # "raised"
          /\ docs' = OtherRows(docs, call'.path)]_vars

\* C23: recording a duration or a status for a path without a record does not
\* raise and leaves the table as it is; for a path with a record it changes at
\* most that column of that record, never the timestamp and no other record
C23_RecordOutcome ==
    [][call'.op \in {"update_indexing_time", "update_file_status"} =>
          LET i == SelectFirst(docs, call'.path)
          IN  /\ call'.status # "raised"
              /\ i = 0 => docs' = docs
              /\ i # 0 =>
                     /\ Len(docs') = Len(docs)
                     /\ \A j \in 1..Len(docs) : j # i => docs'[j] = docs[j]
                     /\ docs'[i].fpath = docs[i].fpath
                     /\ docs'[i].last_updated_seconds = docs[i].last_updated_seconds
                     /\ call'.op = "update_indexing_time" =>
                            docs'[i].status = docs[i].status
                     /\ call'.op = "update_file_status" =>
                            docs'[i].indexing_time_seconds = docs[i].indexing_time_seconds]_vars

\* C23 witness: an outcome was recorded for a path whose record a delete had
\* removed, while the other path keeps a record with a recorded outcome
C23_Witness ==
    /\ call.op \in {"update_indexing_time", "update_file_status"}
    /\ call.path \notin StoredPaths(docs)
    /\ \E i \in 1..Len(docs) :
           docs[i].status = "indexed" /\ docs[i].indexing_time_seconds # None

-----------------------------------------------------------------------------
(* The timestamps stored for a path over FileEvents and PurgeEvents *)

\* the larger of two timestamps, None being smaller than every timestamp
Max(a, b) == IF a < b THEN b ELSE a

\* the consumer handles a FileEvent; high keeps the largest timestamp that
\* was ever stored for the path
HistoryIndex ==
    /\ \E path \in OnePerPool, last_updated_seconds \in Times, n \in 0..MaxDocuments :
           /\ index(path, last_updated_seconds, n, "none")
           /\ high' = [high EXCEPT ![path] = Max(@, LastStored(docs', path))]
    /\ UNCHANGED <<sess, tasks, queue, app, chain, route, search, disk, chat, upload>>

\* the consumer handles a PurgeEvent, which stores no timestamp
HistoryPurge ==
    /\ \E existing_file_paths \in SUBSET OnePerPool : purge(existing_file_paths)
    /\ UNCHANGED <<sess, tasks, queue, app, chain, route, search, high, disk, chat, upload>>

NextHistory == HistoryIndex \/ HistoryPurge

SpecHistory == Init /\ [][NextHistory]_vars

\* C24 as stated: every value stored for a path is greater than or equal to
\* every value stored for that path before, over every sequence of FileEvents
\* and PurgeEvents
C24_Original ==
    \A p \in Paths : LastStored(docs, p) # None => LastStored(docs, p) >= high[p]

\* C24: while the record of a path exists, its stored timestamp never
\* decreases: a FileEvent or a PurgeEvent that leaves the record in place
\* leaves its timestamp or raises it
C24_NoRegress ==
    [][\A p \in Paths :
          LastStored(docs, p) # None /\ LastStored(docs', p) # None =>
              LastStored(docs', p) >= LastStored(docs, p)]_vars

\* C24 witness: a FileEvent with an older timestamp than the stored one was
\* handled and the record kept the newer one
C24_Witness ==
    /\ call.op = "index"
    /\ call.status = no_need_reindexing
    /\ LastStored(docs, call.path) # None
    /\ call.last_updated_seconds < LastStored(docs, call.path)

-----------------------------------------------------------------------------
(* Purge and tenants *)

\* the rows of fpath: its record, or none
RecordOf(table, fpath) == SelectSeq(table, LAMBDA doc : doc.fpath = fpath)

\* the number of points of fpath in the collection of its pool
PointsOf(q, fpath) == IF PoolOf[fpath] \in DOMAIN q THEN q[PoolOf[fpath]][fpath] ELSE 0

\* C25: a purge is scoped to one tenant, the pool its paths are routed to:
\* the records and the chunks of the paths of every other tenant are
\* unchanged, also when the event's existing paths do not list them
C25_PurgeTenantScoped ==
    [][call'.op = "purge" =>
          \E T \in Pools :
              \A p \in Paths :
                  PoolOf[p] # T =>
                      /\ RecordOf(docs', p) = RecordOf(docs, p)
                      /\ PointsOf(qdrant', p) = PointsOf(qdrant, p)]_vars

-----------------------------------------------------------------------------
(* The result of find() *)

\* the file:// URI of path with the watch-root prefix replaced by the
\* externally visible prefix
PrefixLink(path) ==
    <<"file://">> \o Chars[LOCAL_FILES_PATH] \o
        SubSeq(Chars[path], Len(Chars[CONTAINER_PATH]) + 1, Len(Chars[path]))

\* C26: find() on an existing pool returns as output the contents of the
\* retrieved chunks in retrieval order with one separator between neighbours,
\* and as links one file:// URI per distinct source path of the hits, the
\* watch-root prefix replaced; without a hit both are empty
C26_FindResult ==
    search.op = "find" /\ ~search.result.error =>
        LET found == search.found
            output == search.result.output
        IN  /\ Len(output) = IF found = <<>> THEN 0 ELSE 2 * Len(found) - 1
            /\ \A i \in 1..Len(found) : output[2 * i - 1] = found[i].page_content
            /\ \A i \in 1..(Len(found) - 1) : output[2 * i] = Separator
            /\ search.result.links = {PrefixLink(found[i].file_path) : i \in 1..Len(found)}

-----------------------------------------------------------------------------
(* app.py: the remove endpoint *)

\* the parameters of the methods that remove_files calls with keywords
Parameters ==
    [remove_from_storage |-> {"files_to_remove"}, delete_m_doc |-> {"fpath"}]

\* a call that passes a keyword the method does not declare raises TypeError
\* before the method runs
TypeError(method, keywords) == ~(keywords \subseteq Parameters[method])

\* the loop of remove_files over the request's files from the k-th on: each
\* delete_m_doc is inside its own try, an exception is logged and the loop
\* goes on
RECURSIVE delete_each(_, _, _)
delete_each(table, files, k) ==
    IF k > Len(files) THEN table
    ELSE LET d == IF TypeError("delete_m_doc", {"user_id"})
                  THEN [docs |-> table, raised |-> TRUE]
                  ELSE delete_m_doc(table, files[k])
         IN  delete_each(d.docs, files, k + 1)

\* POST /files/remove. status: of the HTTP response, "success" for the
\* FileRemoveResponse
remove_files(files) ==
    LET this == [NoCall EXCEPT !.op = "remove_files", !.files = files]
        r == IF TypeError("remove_from_storage", {"files_to_remove", "user_id"})
             THEN [qdrant |-> qdrant, raised |-> TRUE]
             ELSE remove_from_storage(qdrant, document_stores, files, FALSE)
    IN  IF files = <<>>
        THEN /\ call' = [this EXCEPT !.status = "400"]
             /\ UNCHANGED <<docs, qdrant>>
        ELSE IF r.raised
        THEN /\ call' = [this EXCEPT !.status = "500"]
             /\ qdrant' = r.qdrant
             /\ UNCHANGED docs
        ELSE /\ call' = [this EXCEPT !.status = "success", !.removed_files = files]
             /\ qdrant' = r.qdrant
             /\ docs' = delete_each(docs, files, 1)

\* the file lists of a remove request
FileLists ==
    {<<>>} \cup {<<p>> : p \in OnePerPool} \cup
    {files \in OnePerPool \X OnePerPool : files[1] # files[2]}

RemoveStep ==
    /\ \E files \in FileLists : remove_files(files)
    /\ UNCHANGED <<document_stores, sess, tasks, queue, app, chain, route, search, high, disk, chat, upload>>

NextApi == IndexStep(OnePerPool, {"none"}) \/ RemoveStep

SpecApi == Init /\ [][NextApi]_vars

\* C27: a remove request with a non-empty file list removes the record and
\* the chunks of every listed file, leaves the files that are not listed
\* unchanged, and answers with status success and the list of removed files
C27_RemoveFiles ==
    [][call'.op = "remove_files" /\ call'.files # <<>> =>
          /\ call'.status = "success"
          /\ call'.removed_files = call'.files
          /\ \A p \in Range(call'.files) :
                 RecordOf(docs', p) = <<>> /\ PointsOf(qdrant', p) = 0
          /\ \A p \in Paths \ Range(call'.files) :
                 RecordOf(docs', p) = RecordOf(docs, p)
                 /\ PointsOf(qdrant', p) = PointsOf(qdrant, p)]_vars

-----------------------------------------------------------------------------
(* The crawl tick and shutdown *)

CrawlTasks == {"lifespan.crawl_loop", "trigger.crawl_loop"}

\* the FileEvent of path as the crawl enqueues it
FileEvent(path) ==
    [NoMessage EXCEPT !.type = "file", !.path = path, !.file_id = path,
                      !.last_updated_seconds = Mtime[path]]

\* the PurgeEvent with the given path set
PurgeEvent(existing_file_paths) ==
    [NoMessage EXCEPT !.type = "purge", !.existing_file_paths = existing_file_paths]

\* what a running tick of crawl task t does in one step: it enqueues the
\* FileEvent, with the file's modification time, of a supported file it had
\* left, or skips such a file and goes on without enqueuing, and it finishes
\* only when no file is left, by enqueuing one PurgeEvent whose path set is
\* the set of paths it enqueued a FileEvent for
TickStep(t) ==
    /\ tasks'[t].emitted # tasks[t].emitted =>
           \E path \in tasks[t].left :
               /\ _create_loader(path)
               /\ tasks'[t].emitted = tasks[t].emitted \cup {path}
               /\ tasks'[t].left = tasks[t].left \ {path}
               /\ queue' = Append(queue, FileEvent(path))
    /\ tasks'[t].left # tasks[t].left /\ tasks'[t].emitted = tasks[t].emitted =>
           /\ queue' = queue
           /\ tasks'[t].state = "active"
    /\ tasks'[t].state = "done" =>
           /\ tasks[t].left = {}
           /\ tasks'[t].emitted = tasks[t].emitted
           /\ queue' = Append(queue, PurgeEvent(tasks[t].emitted))

\* C28 as stated: each crawl tick enqueues one FileEvent with the current
\* modification time for every supported file, skipping a file that cannot be
\* enumerated, and after them exactly one PurgeEvent whose path set is the
\* set of the paths it enqueued: no tick ends without its PurgeEvent
C28_Original ==
    [][\A t \in CrawlTasks :
          tasks[t].state = "active" /\ tasks'[t] # tasks[t] =>
              /\ TickStep(t)
              /\ tasks'[t].state \in {"active", "done"}]_vars

\* C28: each crawl tick that is neither abandoned nor cancelled enqueues one
\* FileEvent with the current modification time for every supported file,
\* skipping a file that cannot be enumerated, and after them exactly one
\* PurgeEvent whose path set is the set of the paths it enqueued; a tick that
\* is abandoned because the walk as a whole failed, or whose task is
\* cancelled by the shutdown, enqueues nothing more, and no PurgeEvent; and
\* nothing but a running tick enqueues
C28_CrawlTick ==
    [][/\ \A t \in CrawlTasks :
              /\ tasks[t].state = "active" /\ tasks'[t] # tasks[t] =>
                     /\ TickStep(t)
                     /\ tasks'[t].state \in {"active", "done", "abandoned", "cancelling"}
                     /\ tasks'[t].state \in {"abandoned", "cancelling"} =>
                            /\ queue' = queue
                            /\ tasks'[t].emitted = tasks[t].emitted
              /\ tasks[t].state \in {"abandoned", "cancelling", "cancelled"}
                     /\ tasks'[t] # tasks[t] =>
                     \/ tasks'[t] = NewTask(t)
                     \/ /\ tasks[t].state = "cancelling"
                        /\ tasks'[t].state = "cancelled"
                        /\ tasks'[t].emitted = tasks[t].emitted
                        /\ queue' = queue
       /\ Len(queue') > Len(queue) =>
              \E t \in CrawlTasks : tasks[t].state = "active" /\ tasks'[t] # tasks[t]
      ]_vars

\* C28 witness: a tick has finished after it skipped a file, and its
\* PurgeEvent with the paths it did enqueue is in the queue
C28_Witness ==
    \E t \in CrawlTasks :
        /\ tasks[t].state = "done"
        /\ tasks[t].emitted # {}
        /\ tasks[t].emitted # Enumerated
        /\ queue # <<>>
        /\ queue[Len(queue)] = PurgeEvent(tasks[t].emitted)

\* C29: once shutdown has completed, every producer and consumer task on the
\* work queue, those of startup and those of the periodic trigger, has been
\* cancelled and has finished: none is left that enqueues or dequeues
C29_ShutdownStopsAll ==
    app = "stopped" => \A t \in TaskIds : tasks[t].state # "active"

-----------------------------------------------------------------------------
(* Re-indexing: deletion of the old chunks and upsert of the new ones *)

NextReindex ==
    IndexStep(OnePerPool, {"none", "delete"}) \/ PurgeStep(OnePerPool) \/ Indexer_init

SpecReindex == Init /\ [][NextReindex]_vars

\* C30: on NeedsReindex the old chunks of the path are deleted before the new
\* ones are upserted, so that the path is left with the new chunks alone; when
\* the deletion fails the pass goes on, the file is loaded and every chunk of
\* it is added to the ones the path had; on NewFile nothing is deleted: the
\* new chunks are added to whatever the pool held for the path
C30_DeleteThenUpsert ==
    [][call'.op = "index" =>
          LET p == call'.path
          IN  /\ call'.status = need_reindexing /\ ~call'.delete_raised =>
                     PointsOf(qdrant', p) = call'.ids
              /\ call'.status = need_reindexing /\ call'.delete_raised =>
                     /\ call'.ids = call'.documents
                     /\ PointsOf(qdrant', p) = PointsOf(qdrant, p) + call'.ids
              /\ call'.status = new_file =>
                     PointsOf(qdrant', p) = PointsOf(qdrant, p) + call'.ids]_vars

\* C30 witness: a re-indexing pass whose deletion failed has loaded the file
\* and added its chunks to the old ones
C30_Witness ==
    /\ call.op = "index"
    /\ call.status = need_reindexing
    /\ call.delete_raised
    /\ call.ids > 0
    /\ PointsOf(qdrant, call.path) > call.ids

-----------------------------------------------------------------------------
(* Files without a registered loader *)

\* FileEvents for a Markdown file and for a file no loader is registered for
LoaderFiles == {"/w/a/x.md", "/w/a/x.bin"}

NextLoaders ==
    IndexStep(LoaderFiles, {"none"}) \/ PurgeStep(LoaderFiles) \/ Indexer_init

SpecLoaders == Init /\ [][NextLoaders]_vars

\* C31: a FileEvent whose path has an extension without a registered loader
\* is skipped: index() returns normally and no pool holds more or fewer
\* chunks of any path than before
C31_UnsupportedSkipped ==
    [][call'.op = "index" /\ lower(suffix(call'.path)) \notin EXTENSIONS_TO_LOADERS =>
          /\ call'.status # "raised"
          /\ call'.ids = 0
          /\ \A file_path \in Files :
                 PointsOf(qdrant', file_path) = PointsOf(qdrant, file_path)]_vars

\* C31 witness: the FileEvent of a file without a loader was handled as a new
\* file while the pool held the chunks of another file
C31_Witness ==
    /\ call.op = "index"
    /\ call.path = "/w/a/x.bin"
    /\ call.status = new_file
    /\ PointsOf(qdrant, "/w/a/x.md") > 0

-----------------------------------------------------------------------------
(* Lazy set-up of the collections *)

\* the Qdrant calls of _setup_collection that can raise
SetupFaults == {"none", "collection_exists", "create_payload_index"}

NextSetup == IndexStep(OnePerPool, SetupFaults) \/ Indexer_init

SpecSetup == Init /\ [][NextSetup]_vars

\* C32: the first access to a pool in a process creates its collection when
\* it is absent and caches the handle; an access to a cached pool does not
\* reach the vector database, so that a failing database does not make it
\* fail, and leaves collections and cache as they are; a set-up that fails
\* caches nothing; and no pool is cached twice
C32_LazySetup ==
    /\ [][call'.op = "index" =>
             LET pool == PoolOf[call'.path]
             IN  IF pool \in Range(document_stores)
                 THEN /\ call'.status # "raised"
                      /\ document_stores' = document_stores
                      /\ DOMAIN qdrant' = DOMAIN qdrant
                 ELSE IF call'.status = "raised"
                 THEN document_stores' = document_stores
                 ELSE /\ document_stores' = Append(document_stores, pool)
                      /\ DOMAIN qdrant' = DOMAIN qdrant \cup {pool}]_vars
    /\ [](\A i, j \in 1..Len(document_stores) :
              document_stores[i] = document_stores[j] => i = j)

\* C32 witness: a set-up created the collection and then failed, and the pool
\* is not cached, while the other pool is
C32_Witness ==
    /\ call.op = "index"
    /\ call.status = "raised"
    /\ PoolOf[call.path] \in DOMAIN qdrant
    /\ PoolOf[call.path] \notin Range(document_stores)
    /\ document_stores # <<>>

-----------------------------------------------------------------------------
(* migrate_multiuser.py: the files of a deployment without user directories *)

\* migrate_multiuser.DEFAULT_USER_ID
DEFAULT_USER_ID == "default_user"

\* item.name: the last component of the path
item_name(item) == SubSeq(Chars[item], LastIndexOf(Chars[item], "/") + 1, Len(Chars[item]))

\* the items of local_files_path.iterdir() that are files
RootLevel ==
    {item \in disk :
        /\ Chars[item] = Chars[LOCAL_FILES_PATH] \o <<"/">> \o item_name(item)
        /\ item_name(item) # <<>>}

\* one turn of the loop of migrate_filesystem(), LOCAL_FILES_PATH being set
\* and existing: a file directly under it is renamed into the directory of
\* the default user unless a file of that name is there. migrate_qdrant()
\* sets a payload field of the points, which has no part in their number
migrate_filesystem(item) ==
    /\ item \in RootLevel
    /\ LET new_path ==
               Str(Chars[LOCAL_FILES_PATH] \o <<"/">> \o Chars[DEFAULT_USER_ID] \o <<"/">>
                       \o item_name(item))
       IN  /\ new_path \notin disk
           /\ disk' = (disk \ {item}) \cup {new_path}
    /\ UNCHANGED <<docs, qdrant, document_stores, call, sess, tasks, queue, app, chain,
                   route, search, high, chat, upload>>

\* the migration script running beside the application that serves uploads
NextMigrate ==
    \/ lifespan_startup
    \/ \E item \in disk : migrate_filesystem(item)
    \/ \E file \in Uploads : add_files(<<file>>)
    \/ UploadSteps

SpecMigrate == Init /\ [][NextMigrate]_vars

-----------------------------------------------------------------------------
(* Upload requests *)

\* the upload requests: up to MaxUpload files
Requests == UNION {[1..n -> Uploads] : n \in 1..MaxUpload}

NextUpload ==
    \/ lifespan_startup
    \/ \E files \in Requests : add_files(files)
    \/ UploadSteps
    \/ \E t \in TaskIds : index_dequeue(t)
    \/ \E t \in TaskIds : index_handled(t)

SpecUpload == Init /\ [][NextUpload]_vars

\* the FileEvent of an uploaded file
UploadEvent(filename) ==
    [type |-> "file", path |-> SavedPath[filename], file_id |-> SavedPath[filename],
     last_updated_seconds |-> MaxTime, existing_file_paths |-> {}, user_id |-> UserId]

\* the files of a request that have a supported extension and are saved
Accepted(files) ==
    {i \in 1..Len(files) :
        /\ lower(suffix(files[i].filename)) \in SUPPORTED_EXTENSIONS
        /\ files[i].saved}

\* C33: while an upload request is served, the queue grows only by the
\* FileEvent, with type file, the saved path, the modification time and the
\* user, of one of its files that has a supported extension and was saved and
\* was not enqueued before; when the response is built every such file has
\* been enqueued and no other, and the response lists the paths of those
\* files in the order of the request, or is an error when there is none
C33_UploadEnqueues ==
    [][/\ Len(queue') > Len(queue) =>
              \E i \in Accepted(upload.files) :
                  /\ upload.stage[i] # "enqueued"
                  /\ upload'.stage[i] = "enqueued"
                  /\ queue' = Append(queue, UploadEvent(upload.files[i].filename))
                  /\ \A j \in DOMAIN upload.stage \ {i} : upload'.stage[j] = upload.stage[j]
       /\ upload.active /\ upload'.active =>
              \A i \in DOMAIN upload.stage :
                  /\ upload.stage[i] = "enqueued" => upload'.stage[i] = "enqueued"
                  /\ upload.stage[i] # "enqueued" /\ upload'.stage[i] = "enqueued" =>
                         Len(queue') = Len(queue) + 1
       /\ upload.active /\ ~upload'.active =>
              LET files == upload.files
                  ok == Accepted(files)
                  n == Cardinality(ok)
              IN  /\ \A i \in 1..Len(files) : i \in ok <=> upload.stage[i] = "enqueued"
                  /\ queue' = queue
                  /\ call'.op = "add_files"
                  /\ call'.request = files
                  /\ Len(call'.files) = n
                  /\ \E at \in [ok -> 1..n] :
                         /\ \A i, j \in ok : i < j => at[i] < at[j]
                         /\ \A i \in ok : call'.files[at[i]] = SavedPath[files[i].filename]
                  /\ call'.status = IF n = 0 THEN "400" ELSE "success"
      ]_vars

\* C33 witness: a request with a file that was enqueued and a file that was
\* not has been answered with the one that was
C33_Witness ==
    /\ ~upload.active
    /\ call.op = "add_files"
    /\ call.status = "success"
    /\ Len(call.request) = 2
    /\ call.files = <<SavedPath["x.md"]>>
    /\ \E i \in 1..2 : call.request[i].filename = "x.html"

-----------------------------------------------------------------------------
(* Pool isolation *)

NextIsolation ==
    \/ IndexStep(OnePerPool, {"none"})
    \/ PurgeStep(OnePerPool)
    \/ Indexer_init

SpecIsolation == Init /\ [][NextIsolation]_vars

\* the number of points of collection c that carry file_path
ChunksOf(q, c, file_path) == IF c \in DOMAIN q THEN q[c][file_path] ELSE 0

\* C34: the chunks index() writes for a path are in the collection of the
\* pool the path routes to and carry that path, and index() and a deletion for
\* a list of paths leave the chunks of every other pool as they were
C34_PoolIsolation ==
    [][/\ call'.op = "index" =>
              /\ ChunksOf(qdrant', PoolOf[call'.path], call'.path) >= call'.ids
              /\ call'.ids > 0 =>
                     ChunksOf(qdrant', PoolOf[call'.path], call'.path)
                         = ChunksOf(qdrant, PoolOf[call'.path], call'.path)
                               - call'.points_before + call'.ids
              /\ \A c \in DOMAIN qdrant', file_path \in Files :
                     c # PoolOf[call'.path] \/ file_path # call'.path =>
                         ChunksOf(qdrant', c, file_path) = ChunksOf(qdrant, c, file_path)
       /\ call'.op = "purge" =>
              \A c \in DOMAIN qdrant', file_path \in Files :
                  (\A i \in 1..Len(call'.removed_files) :
                       PoolOf[call'.removed_files[i]] # c) =>
                      ChunksOf(qdrant', c, file_path) = ChunksOf(qdrant, c, file_path)
      ]_vars

\* C34 witness: a changed file of pool a was re-indexed, its old chunks
\* deleted and new ones written, while the default pool held chunks
C34_Witness ==
    /\ call.op = "index"
    /\ call.path = "/w/a/x.md"
    /\ call.status = need_reindexing
    /\ call.points_before > 0
    /\ call.ids > 0
    /\ ChunksOf(qdrant, "default", "/w/r.md") > 0

-----------------------------------------------------------------------------
(* Failed indexing passes *)

\* the external calls that fail after the timestamp check
PassFaults == {"none", "session", "delete", "load_and_split", "add_documents"}

NextFailed == IndexStep(LoaderFiles, PassFaults) \/ Indexer_init

SpecFailed == Init /\ [][NextFailed]_vars

\* C35: a pass that goes on to index has stored the submitted timestamp, and
\* keeps it when the loader, the embedding or the upsert fails or the type
\* has no loader; a FileEvent for a path whose stored timestamp is the
\* submitted one returns no_need_reindexing and changes neither the records
\* nor the chunks
C35_CommitBeforeIndexing ==
    [][call'.op = "index" =>
          /\ call'.status \in {new_file, need_reindexing} =>
                 /\ RecordOf(docs', call'.path) # <<>>
                 /\ \A i \in 1..Len(docs') :
                        docs'[i].fpath = call'.path =>
                            docs'[i].last_updated_seconds = call'.last_updated_seconds
          /\ (/\ RecordOf(docs, call'.path) # <<>>
              /\ LastStored(docs, call'.path) = call'.last_updated_seconds) =>
                 /\ call'.status = no_need_reindexing
                 /\ call'.ids = 0
                 /\ docs' = docs
                 /\ \A c \in DOMAIN qdrant', file_path \in Files :
                        ChunksOf(qdrant', c, file_path) = ChunksOf(qdrant, c, file_path)
      ]_vars

\* C35 witness: the FileEvent of a file whose only passes failed, for want of a
\* loader, came again with the stored modification time and was skipped
C35_Witness ==
    /\ call.op = "index"
    /\ call.path = "/w/a/x.bin"
    /\ call.status = no_need_reindexing
    /\ ~call.session_raised
    /\ RecordOf(docs, "/w/a/x.bin") # <<>>
    /\ LastStored(docs, "/w/a/x.bin") = call.last_updated_seconds
    /\ PointsOf(qdrant, "/w/a/x.bin") = 0

-----------------------------------------------------------------------------
(* Purges and uploads *)

\* index_loop takes the oldest message and handles it: Indexer.index for a
\* FileEvent, whose loader returns n documents, Indexer.purge for a PurgeEvent
index_message(t) ==
    /\ t \in Consumers
    /\ tasks[t].busy = NoMessage
    /\ queue # <<>>
    /\ queue' = Tail(queue)
    /\ LET message == Head(queue)
       IN  IF message.type = "file"
           THEN \E n \in 0..MaxDocuments :
                    index(message.path, message.last_updated_seconds, n, "none")
           ELSE purge(message.existing_file_paths)
    /\ UNCHANGED <<sess, tasks, app, chain, route, search, high, disk, chat, upload>>

\* the crawl tick of the startup, the upload of a file that is new under the
\* watch root, and the consumer
NextRace ==
    \/ lifespan_startup
    \/ \E t \in TaskIds : crawl_file(t)
    \/ \E t \in TaskIds : crawl_purge(t)
    \/ upload_one("x.md")
    \/ UploadSteps
    \/ \E t \in TaskIds : index_message(t)

SpecRace == Init /\ [][NextRace]_vars

\* C36: a purge leaves the record and the chunks of every file that is on
\* disk and has a record, under every interleaving of crawl ticks, uploads
\* and consumer steps
C36_PurgeKeepsPresentFiles ==
    [][call'.op = "purge" =>
          \A p \in disk :
              RecordOf(docs, p) # <<>> =>
                  /\ RecordOf(docs', p) = RecordOf(docs, p)
                  /\ PointsOf(qdrant', p) = PointsOf(qdrant, p)]_vars

-----------------------------------------------------------------------------
(* Queries and the pool cache *)

\* the rankings of at most one point
FewHits == {r \in Rankings : r.at + r.below <= 1 /\ r.paths = <<"/w/a/x.md">>}

\* a query through Indexer.find that returns at most one point
FindPoolStep ==
    /\ search.calls = 0
    /\ \E pool \in Pools, ranked \in FewHits, fault \in FindFaults :
           find(pool, ranked, fault)
    /\ UNCHANGED <<docs, call, sess, tasks, queue, app, chain, route, high, disk, chat, upload>>

\* the indexing and the restarts that precede the query
FindSetup ==
    /\ search.calls = 0
    /\ IndexStep(OnePerPool, {"none"}) \/ Indexer_init

NextFind == FindSetup \/ FindPoolStep

SpecFind == Init /\ [][NextFind]_vars

\* C37 as stated: find for a pool without a collection returns an error
\* result, creates no collection and caches no handle; find for a pool whose
\* collection exists and is not cached adds it to the cache, creates no
\* collection and returns what the search of that pool gives
C37_FindCreatesNothing ==
    [][search'.op = "find" /\ search.calls = 0 =>
          LET pool == search'.pool
              found == similarity_search(Hits(search'.ranked), TOP_K, SCORE_THRESHOLD)
          IN  /\ pool \notin DOMAIN qdrant =>
                     /\ search'.result.error
                     /\ qdrant' = qdrant
                     /\ document_stores' = document_stores
              /\ pool \in DOMAIN qdrant /\ pool \notin Range(document_stores) =>
                     /\ document_stores' = Append(document_stores, pool)
                     /\ qdrant' = qdrant
                     /\ \/ search'.result.error
                        \/ /\ search'.found = found
                           /\ search'.result.links
                                  = {Link(found[i].file_path) : i \in 1..Len(found)}
      ]_vars

-----------------------------------------------------------------------------
(* The websocket loop and the answering loop *)

\* control_flow_commands
CFC_CLIENT_DISCONNECTED == "CFC_CLIENT_DISCONNECTED"

CFC_CHAT_STARTED == "CFC_CHAT_STARTED"

CFC_CHAT_STOPPED == "CFC_CHAT_STOPPED"

\* the texts a websocket client sends
Texts == {CFC_CHAT_STARTED, CFC_CHAT_STOPPED, CFC_CLIENT_DISCONNECTED, "q"}

\* an item of a queue that is a plain string
Plain(text) ==
    [json |-> FALSE, reporter |-> "", type |-> "", message |-> text, user_id |-> ""]

\* an item of a queue that is json.dumps of a dict
Dumps(reporter, type, message, user_id) ==
    [json |-> TRUE, reporter |-> reporter, type |-> type, message |-> message,
     user_id |-> user_id]

\* the parameters of LLMChain.invoke besides self
invoke_parameters == {"message"}

\* what self.chain.invoke returns: an answer or an error result
ChainResults == {"answer", "error"}

\* one iteration of the loop of async_socket_to_chat with a received text
socket_receive(message) ==
    /\ chat.socket = "running"
    /\ chat.received < MaxReceived
    /\ chat' =
           [chat EXCEPT
               !.received = @ + 1,
               !.questions =
                   Append(@, IF message \in {CFC_CHAT_STARTED, CFC_CHAT_STOPPED}
                             THEN Plain(message)
                             ELSE Dumps("", "", message, UserId)),
               !.responses =
                   IF message = CFC_CHAT_STARTED THEN @
                   ELSE IF message = CFC_CHAT_STOPPED
                   THEN Append(@, Dumps("input_message", "stop_message", message, ""))
                   ELSE Append(@, Dumps("input_message", "question", message, ""))]
    /\ UNCHANGED <<docs, qdrant, document_stores, call, sess, tasks, queue, app, chain,
                   route, search, high, disk, upload>>

\* the iteration of that loop in which receive_text raises WebSocketDisconnect
socket_disconnect ==
    /\ chat.socket = "running"
    /\ chat' = [chat EXCEPT !.socket = "done",
                            !.questions = Append(@, Plain(CFC_CLIENT_DISCONNECTED)),
                            !.responses = Append(@, Plain(CFC_CLIENT_DISCONNECTED))]
    /\ UNCHANGED <<docs, qdrant, document_stores, call, sess, tasks, queue, app, chain,
                   route, search, high, disk, upload>>

\* a mutant of question_to_answer: the loop goes on after the disconnect
\* command
question_to_answer_noBreak(data, responses, result) ==
    LET text == IF data.json THEN <<"{">> ELSE replace(Chars[data.message], <<"\n">>, <<>>)
    IN  IF text = Chars[CFC_CLIENT_DISCONNECTED]
        THEN [responses |->
                  Append(responses, Dumps("output_message", "disconnect_message", "", "")),
              state |-> "running"]
        ELSE IF text = Chars[CFC_CHAT_STARTED]
        THEN [responses |->
                  Append(responses, Dumps("output_message", "start_message", "", "")),
              state |-> "running"]
        ELSE IF text = Chars[CFC_CHAT_STOPPED]
        THEN [responses |->
                  Append(responses, Dumps("output_message", "stop_message", "", "")),
              state |-> "running"]
        ELSE IF text = <<>>
        THEN [responses |-> responses, state |-> "running"]
        ELSE LET processing ==
                     Append(responses, Dumps("output_message", "processing",
                                             "Processing your request...", ""))
             IN  IF ~({"message", "user_id"} \subseteq invoke_parameters)
                 THEN [responses |-> processing, state |-> "raised"]
                 ELSE IF result = "error"
                 THEN [responses |-> processing, state |-> "raised"]
                 ELSE [responses |-> Append(processing,
                                            Dumps("output_message", "answer", "answer", "")),
                       state |-> "running"]

\* one iteration of the loop of async_question_to_answer on the item data.
\* text: the characters of data.replace("\n", ""); of a json.dumps, which
\* escapes every newline, only that it starts with a brace, so it is not
\* empty and equals no command. The call
\* llm_chain.invoke(message, user_id=user_id) raises TypeError for a keyword
\* LLMChain.invoke does not declare, and result["answer"] raises KeyError on
\* an error result; nothing catches either. state: "done" after break,
\* "raised" when the coroutine ended with an exception
question_to_answer(data, responses, result) ==
    LET text == IF data.json THEN <<"{">> ELSE replace(Chars[data.message], <<"\n">>, <<>>)
    IN  IF text = Chars[CFC_CLIENT_DISCONNECTED]
        THEN [responses |->
                  Append(responses, Dumps("output_message", "disconnect_message", "", "")),
              state |-> "done"]
        ELSE IF text = Chars[CFC_CHAT_STARTED]
        THEN [responses |->
                  Append(responses, Dumps("output_message", "start_message", "", "")),
              state |-> "running"]
        ELSE IF text = Chars[CFC_CHAT_STOPPED]
        THEN [responses |->
                  Append(responses, Dumps("output_message", "stop_message", "", "")),
              state |-> "running"]
        ELSE IF text = <<>>
        THEN [responses |-> responses, state |-> "running"]
        ELSE LET processing ==
                     Append(responses, Dumps("output_message", "processing",
                                             "Processing your request...", ""))
             IN  IF ~({"message", "user_id"} \subseteq invoke_parameters)
                 THEN [responses |-> processing, state |-> "raised"]
                 ELSE IF result = "error"
                 THEN [responses |-> processing, state |-> "raised"]
                 ELSE [responses |-> Append(processing,
                                            Dumps("output_message", "answer", "answer", "")),
                       state |-> "running"]

\* the answering loop dequeues an item and handles it; the iteration has no
\* await after the dequeue
answer_step ==
    /\ chat.answerer = "running"
    /\ chat.questions # <<>>
    /\ \E result \in ChainResults :
           LET r == question_to_answer(Head(chat.questions), chat.responses, result)
           IN  chat' = [chat EXCEPT !.questions = Tail(@),
                                    !.responses = r.responses,
                                    !.answerer = r.state]
    /\ UNCHANGED <<docs, qdrant, document_stores, call, sess, tasks, queue, app, chain,
                   route, search, high, disk, upload>>

NextChat ==
    \/ \E message \in Texts : socket_receive(message)
    \/ socket_disconnect
    \/ answer_step

SpecChat == Init /\ [][NextChat]_vars

\* the step is a dequeue of the answering loop
Dequeues == Len(chat'.questions) < Len(chat.questions)

\* C38: for every question it dequeues, the answering loop enqueues one
\* processing message and then one answer message before the next dequeue,
\* and it is still running afterwards
C38_ProcessingThenAnswer ==
    [][Dequeues /\ Head(chat.questions).json =>
          /\ Len(chat'.responses) = Len(chat.responses) + 2
          /\ SubSeq(chat'.responses, 1, Len(chat.responses)) = chat.responses
          /\ chat'.responses[Len(chat.responses) + 1].type = "processing"
          /\ chat'.responses[Len(chat.responses) + 2].type = "answer"
          /\ chat'.answerer = "running"]_vars

\* the responses that the answering loop enqueued
Output(responses) == SelectSeq(responses, LAMBDA r : r.reporter = "output_message")

\* C39: on a disconnect the websocket loop enqueues the disconnect command on
\* both queues and ends; the answering loop that dequeues the command
\* enqueues one disconnect_message, ends and dequeues nothing more; the
\* started and stopped commands give a start_message and a stop_message and
\* end neither loop
C39_DisconnectEndsLoops ==
    [][/\ chat.socket = "running" /\ chat'.socket = "done" =>
              /\ chat'.questions = Append(chat.questions, Plain(CFC_CLIENT_DISCONNECTED))
              /\ chat'.responses = Append(chat.responses, Plain(CFC_CLIENT_DISCONNECTED))
       /\ chat.socket = "done" =>
              /\ chat'.socket = "done"
              /\ Len(chat'.questions) <= Len(chat.questions)
              /\ \A i \in 1..Len(chat'.responses) :
                     i > Len(chat.responses) => chat'.responses[i].reporter # "input_message"
       /\ Dequeues /\ Head(chat.questions) = Plain(CFC_CLIENT_DISCONNECTED) =>
              /\ chat'.responses =
                     Append(chat.responses,
                            Dumps("output_message", "disconnect_message", "", ""))
              /\ chat'.answerer = "done"
       /\ chat.answerer = "done" =>
              /\ chat'.answerer = "done"
              /\ ~Dequeues
              /\ Output(chat'.responses) = Output(chat.responses)
       /\ Dequeues /\ Head(chat.questions) = Plain(CFC_CHAT_STARTED) =>
              /\ chat'.responses =
                     Append(chat.responses, Dumps("output_message", "start_message", "", ""))
              /\ chat'.answerer = "running"
              /\ chat'.socket = chat.socket
       /\ Dequeues /\ Head(chat.questions) = Plain(CFC_CHAT_STOPPED) =>
              /\ chat'.responses =
                     Append(chat.responses, Dumps("output_message", "stop_message", "", ""))
              /\ chat'.answerer = "running"
              /\ chat'.socket = chat.socket
       /\ (/\ Len(chat'.questions) > Len(chat.questions)
           /\ chat'.questions[Len(chat'.questions)].message
                  \in {CFC_CHAT_STARTED, CFC_CHAT_STOPPED}
           /\ ~chat'.questions[Len(chat'.questions)].json) =>
              chat'.socket = "running" /\ chat'.answerer = chat.answerer
      ]_vars

\* C39 witness: both loops have ended on the disconnect command, after the
\* started and the stopped command were answered with their messages
C39_Witness ==
    /\ chat.socket = "done"
    /\ chat.answerer = "done"
    /\ chat.questions = <<>>
    /\ LET out == Output(chat.responses)
       IN  /\ Len(out) = 3
           /\ out[1].type = "start_message"
           /\ out[2].type = "stop_message"
           /\ out[3].type = "disconnect_message"

====
